---------------------------- MODULE Spec2Model ----------------------------
(***************************************************************************)
(* Verification model of the wgpu command execution engine:                *)
(*   render/src/commands.rs        Command, CommandList                    *)
(*   render/wgpu/src/commands.rs   CommandTarget, CommandRenderer::execute,*)
(*                                 the mask handlers, chunk_blends         *)
(*   render/wgpu/src/pipelines.rs  the stencil state of each MaskState     *)
(* The recorded command buffers are run by a small GPU interpreter whose   *)
(* stencil test, colour write mask and load operations are the ones the    *)
(* pipelines and attachments of the source ask for.                        *)
(***************************************************************************)
EXTENDS Integers, Sequences, FiniteSets, TLC

(***************************************************************************)
(* Bounds of the model.                                                    *)
(***************************************************************************)
MaxLen == 3
MaxMaskDepth == 2
MaxBlendDepth == 2
NumPixels == 2

Pixels == 1..NumPixels

(***************************************************************************)
(* num_masks is a u32.  It is held as the 32-bit two's complement integer  *)
(* of the same bits: 0 .. 2147483647 stand for themselves and -1 stands    *)
(* for 4294967295 (u32::MAX), -2 for 4294967294, and so on.                *)
(***************************************************************************)
I32Max == 2147483647

(***************************************************************************)
(* Colours.  A colour is transparent or one opaque named colour, so the    *)
(* premultiplied-alpha blend of the colour and bitmap pipelines is "source *)
(* over destination".                                                      *)
(***************************************************************************)
Transparent == "transparent"

PREMULTIPLIED_ALPHA_BLENDING(src, dst) == IF src = Transparent THEN dst ELSE src

(***************************************************************************)
(* Command (render/src/commands.rs).  px abstracts the transform: the      *)
(* pixels the transformed geometry covers.                                 *)
(***************************************************************************)
RenderBitmap(bitmap, px, smoothing) ==
    [op |-> "RenderBitmap", bitmap |-> bitmap, px |-> px, smoothing |-> smoothing]
RenderShape(shape) == [op |-> "RenderShape", shape |-> shape]
DrawRect(color, px) == [op |-> "DrawRect", color |-> color, px |-> px]
PushMask == [op |-> "PushMask"]
ActivateMask == [op |-> "ActivateMask"]
DeactivateMask == [op |-> "DeactivateMask"]
PopMask == [op |-> "PopMask"]
Blend(commands, blend_mode) ==
    [op |-> "Blend", commands |-> commands, blend_mode |-> blend_mode]

IsBlend(command) == command.op = "Blend"

(***************************************************************************)
(* Chunk and chunk_blends (render/wgpu/src/commands.rs).                   *)
(***************************************************************************)
ChunkDraw(chunk) == [kind |-> "Draw", commands |-> chunk, blend_mode |-> "none"]
ChunkBlend(commands, blend_mode) ==
    [kind |-> "Blend", commands |-> commands, blend_mode |-> blend_mode]

\* current.push(command), given a wrong order
PushCurrentFront(current, command) == <<command>> \o current

\* current.push(command)
PushCurrent(current, command) == Append(current, command)

\* the flush of the pending run, pushing it also when it is empty
FlushAlways(result, current) == Append(result, ChunkDraw(current))

\* if !current.is_empty() { result.push(Chunk::Draw(take(&mut current))) }
FlushCurrent(result, current) ==
    IF current # <<>> THEN Append(result, ChunkDraw(current)) ELSE result

\* the Blend arm, leaving the Blend command in the pending run
ScanBlendMerged(st, command) ==
    [result |-> st.result, current |-> Append(st.current, command)]

\* the Blend arm of the scan: flush, then the Blend chunk of its own
ScanBlend(st, command) ==
    [result |-> Append(FlushCurrent(st.result, st.current),
                       ChunkBlend(command.commands, command.blend_mode)),
     current |-> <<>>]

\* the other arm, pushing each command as a Draw chunk of its own
ScanOtherFlushing(st, command) ==
    [result |-> Append(st.result, ChunkDraw(<<command>>)), current |-> <<>>]

\* the other arm of the scan
ScanOther(st, command) ==
    [result |-> st.result, current |-> PushCurrent(st.current, command)]

ScanStep(st, command) ==
    IF IsBlend(command) THEN ScanBlend(st, command) ELSE ScanOther(st, command)

RECURSIVE ScanAll(_, _)
ScanAll(st, commands) ==
    IF commands = <<>> THEN st
    ELSE ScanAll(ScanStep(st, Head(commands)), Tail(commands))

chunk_blends(commands) ==
    LET st == ScanAll([result |-> <<>>, current |-> <<>>], commands)
    IN  FlushCurrent(st.result, st.current)


(***************************************************************************)
(* The meshes of the library (render/wgpu/src/library.rs, meshes), as the  *)
(* mesh provider hands them over: per sub-draw its type, the full index    *)
(* count, the mask-only index count (strokes left out) and the pixels the  *)
(* fill and the stroke triangles cover.                                    *)
(***************************************************************************)
Meshes ==
    << << [draw_type |-> "Color", num_indices |-> 12, num_mask_indices |-> 6,
           fill_px |-> {1}, stroke_px |-> {2}, color |-> "white"] >>,
       << [draw_type |-> "Gradient", num_indices |-> 6, num_mask_indices |-> 6,
           fill_px |-> {2}, stroke_px |-> {}, color |-> "grey"],
          [draw_type |-> "Bitmap", num_indices |-> 6, num_mask_indices |-> 0,
           fill_px |-> {}, stroke_px |-> {1}, color |-> "green"] >> >>

\* The pixels the first num_indices indices of a sub-draw cover: the fill
\* triangles come first, the stroke triangles after them.
CoveredBy(draw, num_indices) ==
    IF num_indices >= draw.num_indices /\ draw.num_indices > draw.num_mask_indices
    THEN draw.fill_px \cup draw.stroke_px
    ELSE draw.fill_px

\* The registered bitmaps: the colour of their texture.
Bitmaps == << "green" >>

(***************************************************************************)
(* CommandTarget (render/wgpu/src/commands.rs).  Textures are ids; None is *)
(* the absent resolve buffer.                                              *)
(***************************************************************************)
None == 0

CommandTarget(frame_buffer, blend_buffer, resolve_buffer, depth) ==
    [frame_buffer |-> frame_buffer, blend_buffer |-> blend_buffer,
     resolve_buffer |-> resolve_buffer, depth |-> depth]

color_attachments(target, clear) ==
    [view |-> target.frame_buffer,
     resolve_target |-> target.resolve_buffer,
     load |-> IF clear THEN "Clear" ELSE "Load"]

depth_attachment(target, clear) ==
    [view |-> target.depth,
     depth_load |-> IF clear THEN "Clear" ELSE "Load",
     stencil_load |-> "Load"]

\* the texture a snapshot or a composite reads: resolve buffer, else frame buffer
color_view(target) ==
    IF target.resolve_buffer # None THEN target.resolve_buffer
    ELSE target.frame_buffer

update_blend_buffer(target) ==
    [op |-> "copy_texture_to_texture",
     src |-> color_view(target),
     dst |-> target.blend_buffer]

begin_render_pass(color, depth_stencil) ==
    [op |-> "begin_render_pass", color |-> color, depth_stencil |-> depth_stencil]

set_stencil_reference(reference) ==
    [op |-> "set_stencil_reference", reference |-> reference]

\* set_pipeline, set_bind_group(2, ..), set_vertex/index_buffer, draw_indexed
draw_indexed(family, mask_state, binds, src, px, num_indices) ==
    [op |-> "draw_indexed",
     pipeline |-> [family |-> family, mask_state |-> mask_state],
     binds |-> binds, src |-> src, px |-> px, num_indices |-> num_indices]

end_render_pass == [op |-> "end_render_pass"]

\* what a draw samples: a solid colour (vertex colour, gradient or bitmap of
\* one colour), or a texture view; produced_by is the place in output of the
\* command buffer that rendered the view
SolidSource(color) ==
    [kind |-> "color", color |-> color, view |-> None, produced_by |-> 0]
TextureSource(view, produced_by) ==
    [kind |-> "texture", color |-> Transparent, view |-> view,
     produced_by |-> produced_by]


(***************************************************************************)
(* State.                                                                  *)
(*   scan              chunk_blends' loop, run on its own                  *)
(*   commands          the CommandList handed to the top-level execute     *)
(*   debug_assertions  the build: debug_assert! and overflow checks are on *)
(*   msaa              the targets are multisampled (own a resolve buffer) *)
(*   phase             "idle", "record" (inside execute), "submit" (the    *)
(*                     caller runs the output on the queue), "done",       *)
(*                     "panic"                                             *)
(*   stack             the activations of CommandRenderer::execute         *)
(*   output            the Vec of finished command buffers                 *)
(*   texture_buffers   the pool of frame, resolve and blend buffers        *)
(*   textures          the colour of every pixel of every texture          *)
(*   stencil           the stencil value of every pixel (one depth buffer) *)
(*   gpu               the queue's position in output and its open pass    *)
(*   resolved          per executed command buffer, the colour its target  *)
(*                     held when the buffer had run                        *)
(*   dispatch          CommandList::execute, run on a handler of its own   *)
(*   descriptors       the Descriptors object: blend buffers, the three    *)
(*                     caches with their mutexes                           *)
(*   contexts          the frame-preparation contexts that call into       *)
(*                     descriptors, each at a place of its call            *)
(*   answers           per cache and key, the object the first finished    *)
(*                     request was answered with                           *)
(***************************************************************************)
VARIABLES scan, commands, debug_assertions, msaa, phase, stack, output,
          texture_buffers, textures, stencil, gpu, resolved,
          dispatch, descriptors, contexts, answers

vars == <<scan, commands, debug_assertions, msaa, phase, stack, output,
          texture_buffers, textures, stencil, gpu, resolved,
          dispatch, descriptors, contexts, answers>>

libVars == <<dispatch, descriptors, contexts, answers>>

inputVars == <<commands, debug_assertions, msaa>>
execVars == <<phase, stack, output, texture_buffers>>
gpuVars == <<textures, stencil, gpu, resolved>>

(***************************************************************************)
(* CommandRenderer: the fields the handlers touch.  render_pass is the     *)
(* list of calls recorded on the open render pass; panicked is the message *)
(* of the panic that stopped the handler, "" when there is none.           *)
(***************************************************************************)
CommandRendererNew(render_pass, num_masks, mask_state) ==
    [num_masks |-> num_masks, mask_state |-> mask_state,
     render_pass |-> render_pass, panicked |-> ""]

Panic(self, message) == [self EXCEPT !.panicked = message]

\* n + 1 and n - 1 of a u32, wrapping as a release build does
AddOne(n) == IF n = I32Max THEN (-I32Max) - 1 ELSE n + 1
SubOne(n) == IF n = (-I32Max) - 1 THEN I32Max ELSE n - 1
\* the u32 is u32::MAX, so that + 1 overflows; the u32 is 0, so that - 1 does
IsU32Max(n) == n = -1
\* n > 0 of a u32
IsPositive(n) == n # 0

Record(self, call) == [self EXCEPT !.render_pass = Append(@, call)]

\* no stencil reference set before the command: the pass keeps the one the
\* mask handlers set on it, if any
StencilReferenceKept(mask_state, num_masks) == <<>>

\* The stencil reference set before every command of a Draw chunk, and
\* before the composite draw, from the mask state.
StencilReferenceFor(mask_state, num_masks) ==
    CASE mask_state = "NoMask" -> <<>>
      [] mask_state = "DrawMaskStencil" -> <<set_stencil_reference(SubOne(num_masks))>>
      [] mask_state = "DrawMaskedContent" -> <<set_stencil_reference(num_masks)>>
      [] mask_state = "ClearMaskStencil" -> <<set_stencil_reference(num_masks)>>

\* num_masks - 1 overflows, which a debug build checks
StencilReferenceOverflows(mask_state, num_masks) ==
    debug_assertions /\ mask_state = "DrawMaskStencil" /\ num_masks = 0

\* prep_color / prep_gradient / prep_bitmap and draw
Draw(self, family, src, px, num_indices) ==
    Record(self, draw_indexed(family, self.mask_state, {}, src, px, num_indices))

render_bitmap(self, bitmap, px, smoothing) ==
    Draw(self, "bitmap", SolidSource(Bitmaps[bitmap + 1]), px, 6)

\* the index count of a sub-draw: strokes are left out of a mask stencil
\* the full index count whatever the mask state
NumIndicesFull(mask_state, draw) == draw.num_indices

NumIndices(mask_state, draw) ==
    IF mask_state # "DrawMaskStencil" /\ mask_state # "ClearMaskStencil"
    THEN draw.num_indices
    ELSE draw.num_mask_indices

FamilyOf(draw_type) ==
    CASE draw_type = "Color" -> "color"
      [] draw_type = "Gradient" -> "gradient"
      [] draw_type = "Bitmap" -> "bitmap"

RECURSIVE RenderDraws(_, _)
RenderDraws(self, draws) ==
    IF draws = <<>> THEN self
    ELSE LET draw == Head(draws)
             num_indices == NumIndices(self.mask_state, draw)
         IN  IF num_indices = 0
             THEN RenderDraws(self, Tail(draws))
             ELSE RenderDraws(Draw(self, FamilyOf(draw.draw_type),
                                   SolidSource(draw.color),
                                   CoveredBy(draw, num_indices), num_indices),
                              Tail(draws))

render_shape(self, shape) == RenderDraws(self, Meshes[shape + 1])

draw_rect(self, color, px) == Draw(self, "color", SolidSource(color), px, 6)

\* push_mask without the - 1 of its stencil reference
push_mask_ref_off(self) ==
    LET num_masks == AddOne(self.num_masks)
    IN  Record([self EXCEPT !.num_masks = num_masks,
                            !.mask_state = "DrawMaskStencil"],
               set_stencil_reference(num_masks))

push_mask(self) ==
    IF debug_assertions
       /\ ~(self.mask_state = "NoMask" \/ self.mask_state = "DrawMaskedContent")
    THEN Panic(self, "debug_assert")
    ELSE IF debug_assertions /\ IsU32Max(self.num_masks)
    THEN Panic(self, "overflow")
    ELSE LET num_masks == AddOne(self.num_masks)
         IN  Record([self EXCEPT !.num_masks = num_masks,
                                 !.mask_state = "DrawMaskStencil"],
                    set_stencil_reference(SubOne(num_masks)))

\* activate_mask leaving the state where it was
activate_mask_stuck(self) == Record(self, set_stencil_reference(self.num_masks))

activate_mask(self) ==
    IF debug_assertions
       /\ ~(IsPositive(self.num_masks) /\ self.mask_state = "DrawMaskStencil")
    THEN Panic(self, "debug_assert")
    ELSE Record([self EXCEPT !.mask_state = "DrawMaskedContent"],
                set_stencil_reference(self.num_masks))

deactivate_mask(self) ==
    IF debug_assertions
       /\ ~(IsPositive(self.num_masks) /\ self.mask_state = "DrawMaskedContent")
    THEN Panic(self, "debug_assert")
    ELSE Record([self EXCEPT !.mask_state = "ClearMaskStencil"],
                set_stencil_reference(self.num_masks))

\* pop_mask going back to NoMask whatever the counter is
pop_mask_no_mask(self) ==
    LET num_masks == SubOne(self.num_masks)
    IN  Record([self EXCEPT !.num_masks = num_masks, !.mask_state = "NoMask"],
               set_stencil_reference(num_masks))

\* pop_mask choosing the state from the counter before the decrement
pop_mask_stale_counter(self) ==
    LET num_masks == SubOne(self.num_masks)
    IN  Record([self EXCEPT !.num_masks = num_masks,
                            !.mask_state = IF self.num_masks = 0 THEN "NoMask"
                                           ELSE "DrawMaskedContent"],
               set_stencil_reference(num_masks))

pop_mask(self) ==
    IF debug_assertions
       /\ ~(IsPositive(self.num_masks) /\ self.mask_state = "ClearMaskStencil")
    THEN Panic(self, "debug_assert")
    ELSE LET num_masks == SubOne(self.num_masks)
         IN  Record([self EXCEPT !.num_masks = num_masks,
                                 !.mask_state = IF num_masks = 0 THEN "NoMask"
                                                ELSE "DrawMaskedContent"],
                    set_stencil_reference(num_masks))


(***************************************************************************)
(* TextureBuffers: the pool the frame driver owns.  A buffer that was      *)
(* returned is handed out again before a new one is created; a new texture *)
(* gets the next id.                                                       *)
(***************************************************************************)
PoolTake(free, next) ==
    IF free # <<>>
    THEN [buffer |-> free[Len(free)], free |-> SubSeq(free, 1, Len(free) - 1),
          next |-> next]
    ELSE [buffer |-> next, free |-> <<>>, next |-> next + 1]

take_frame_buffer(tb) ==
    LET t == PoolTake(tb.frame_buffers, tb.next)
    IN  [buffer |-> t.buffer,
         pool |-> [tb EXCEPT !.frame_buffers = t.free, !.next = t.next]]

take_resolve_buffer(tb) ==
    IF ~msaa THEN [buffer |-> None, pool |-> tb]
    ELSE LET t == PoolTake(tb.resolve_buffers, tb.next)
         IN  [buffer |-> t.buffer,
              pool |-> [tb EXCEPT !.resolve_buffers = t.free, !.next = t.next]]

take_blend_buffer(tb) ==
    LET t == PoolTake(tb.blend_buffers, tb.next)
    IN  [buffer |-> t.buffer,
         pool |-> [tb EXCEPT !.blend_buffers = t.free, !.next = t.next]]

\* the buffers of a child target go back to the pool
ReturnBuffers(tb, child) ==
    [tb EXCEPT !.frame_buffers = Append(@, child.frame_buffer),
               !.blend_buffers = Append(@, child.blend_buffer),
               !.resolve_buffers = IF child.resolve_buffer # None
                                   THEN Append(@, child.resolve_buffer) ELSE @]

\* the target the caller of execute owns
RootTarget == CommandTarget(1, 2, IF msaa THEN 3 ELSE None, 1)
NoTarget == CommandTarget(None, None, None, None)

ClearTexture == [p \in Pixels |-> Transparent]

(***************************************************************************)
(* CommandRenderer::execute: one activation.                               *)
(*   pc = "loop"   at the head of  for chunk in chunk_blends(commands.0)   *)
(*   pc = "draw"   inside the command loop of a Draw chunk (a pass is open)*)
(*   pc = "blend"  in a Blend chunk, the recursive execute is running      *)
(***************************************************************************)
Activation(cmds, target, nearest_layer, clear_depth) ==
    [commands |-> cmds, target |-> target, nearest_layer |-> nearest_layer,
     clear_depth |-> clear_depth,
     draw_encoder |-> <<>>, first |-> TRUE,
     num_masks |-> 0, mask_state |-> "NoMask",
     chunks |-> chunk_blends(cmds), pc |-> "loop",
     chunk |-> <<>>,
     renderer |-> CommandRendererNew(<<>>, 0, "NoMask"),
     child |-> NoTarget, blend_mode |-> "none"]

Top == stack[Len(stack)]
SetTop(f) == [stack EXCEPT ![Len(stack)] = f]

\* the top-level call of execute
Execute ==
    /\ phase = "idle"
    /\ \E clear_depth \in BOOLEAN :
          stack' = <<Activation(commands, RootTarget, RootTarget, clear_depth)>>
    /\ phase' = "record"
    /\ UNCHANGED <<scan, inputVars, libVars, output, texture_buffers, gpuVars>>

\* Chunk::Draw(chunk): begin_render_pass and CommandRenderer::new
BeginDraw(f) ==
    [f EXCEPT !.draw_encoder =
                  Append(@, begin_render_pass(
                                color_attachments(f.target, f.first),
                                depth_attachment(f.target, f.first /\ f.clear_depth))),
              !.renderer = CommandRendererNew(<<>>, f.num_masks, f.mask_state),
              !.chunk = Head(f.chunks).commands,
              !.chunks = Tail(f.chunks),
              !.pc = "draw"]

BeginDrawChunk ==
    /\ phase = "record"
    /\ Top.pc = "loop"
    /\ Top.chunks # <<>>
    /\ Head(Top.chunks).kind = "Draw"
    /\ stack' = SetTop(BeginDraw(Top))
    /\ UNCHANGED <<scan, inputVars, libVars, phase, output, texture_buffers, gpuVars>>

\* the body of  for command in &chunk : the stencil reference of the mask
\* state, then the handler of the command
LoopBody(renderer, command) ==
    IF StencilReferenceOverflows(renderer.mask_state, renderer.num_masks)
    THEN Panic(renderer, "overflow")
    ELSE LET self == [renderer EXCEPT !.render_pass =
                         @ \o StencilReferenceFor(renderer.mask_state,
                                                  renderer.num_masks)]
         IN  CASE command.op = "RenderBitmap" ->
                      render_bitmap(self, command.bitmap, command.px, command.smoothing)
               [] command.op = "RenderShape" -> render_shape(self, command.shape)
               [] command.op = "DrawRect" -> draw_rect(self, command.color, command.px)
               [] command.op = "PushMask" -> push_mask(self)
               [] command.op = "ActivateMask" -> activate_mask(self)
               [] command.op = "DeactivateMask" -> deactivate_mask(self)
               [] command.op = "PopMask" -> pop_mask(self)

\* the next command of the open Draw chunk is `op`
AtCommand(op) ==
    /\ phase = "record"
    /\ Top.pc = "draw"
    /\ Top.chunk # <<>>
    /\ Head(Top.chunk).op = op

\* The arm  Command::Blend(_, _) => unreachable!(..)  of the command loop.
BlendInDrawChunk == AtCommand("Blend")

Dispatch ==
    LET self == LoopBody(Top.renderer, Head(Top.chunk))
    IN  /\ IF self.panicked # ""
           THEN /\ phase' = "panic"
                /\ stack' = SetTop([Top EXCEPT !.renderer.panicked = self.panicked])
           ELSE /\ phase' = phase
                /\ stack' = SetTop([Top EXCEPT !.renderer = self,
                                               !.chunk = Tail(@)])
        /\ UNCHANGED <<scan, inputVars, libVars, output, texture_buffers, gpuVars>>

RenderBitmapCommand == AtCommand("RenderBitmap") /\ Dispatch
RenderShapeCommand == AtCommand("RenderShape") /\ Dispatch
DrawRectCommand == AtCommand("DrawRect") /\ Dispatch
PushMaskCommand == AtCommand("PushMask") /\ Dispatch
ActivateMaskCommand == AtCommand("ActivateMask") /\ Dispatch
DeactivateMaskCommand == AtCommand("DeactivateMask") /\ Dispatch
PopMaskCommand == AtCommand("PopMask") /\ Dispatch

\* the end of a Draw chunk that leaves its render pass open
EndDrawPassOpen(f) ==
    [f EXCEPT !.draw_encoder = @ \o f.renderer.render_pass,
              !.num_masks = f.renderer.num_masks,
              !.mask_state = f.renderer.mask_state,
              !.first = FALSE,
              !.pc = "loop"]

\* the end of a Draw chunk that forgets the renderer's mask state
EndDrawForgetful(f) ==
    [f EXCEPT !.draw_encoder = (@ \o f.renderer.render_pass) \o <<end_render_pass>>,
              !.first = FALSE,
              !.pc = "loop"]

\* the end of a Draw chunk: num_masks and mask_state are taken back from the
\* renderer, the pass is dropped, first = false
EndDraw(f) ==
    [f EXCEPT !.draw_encoder = (@ \o f.renderer.render_pass) \o <<end_render_pass>>,
              !.num_masks = f.renderer.num_masks,
              !.mask_state = f.renderer.mask_state,
              !.first = FALSE,
              !.pc = "loop"]

EndDrawChunk ==
    /\ phase = "record"
    /\ Top.pc = "draw"
    /\ Top.chunk = <<>>
    /\ stack' = SetTop(EndDraw(Top))
    /\ UNCHANGED <<scan, inputVars, libVars, phase, output, texture_buffers, gpuVars>>


(***************************************************************************)
(* Chunk::Blend(commands, blend_mode)                                      *)
(***************************************************************************)
\* the child handed on as nearest_layer whatever the blend mode is
NearestLayerAlwaysChild(blend_mode, child, nearest_layer) == child

\* the nearest_layer handed to the recursive execute
NearestLayerFor(blend_mode, child, nearest_layer) ==
    IF blend_mode = "Layer" THEN child ELSE nearest_layer

\* update_blend_buffer, the three take_*_buffer calls and CommandTarget::new
BlendTake(tb) ==
    LET fb == take_frame_buffer(tb)
        rb == take_resolve_buffer(fb.pool)
        bb == take_blend_buffer(rb.pool)
    IN  [frame_buffer |-> fb.buffer, resolve_buffer |-> rb.buffer,
         blend_buffer |-> bb.buffer, pool |-> bb.pool]

\* the Blend chunk entered without the snapshot of the parent
BlendEnterNoSnapshot(f, child) ==
    [f EXCEPT !.child = child,
              !.blend_mode = Head(f.chunks).blend_mode,
              !.chunks = Tail(f.chunks),
              !.pc = "blend"]

BlendEnter(f, child) ==
    [f EXCEPT !.draw_encoder = Append(@, update_blend_buffer(f.target)),
              !.child = child,
              !.blend_mode = Head(f.chunks).blend_mode,
              !.chunks = Tail(f.chunks),
              !.pc = "blend"]

\* a texture created by the pool starts out zeroed
WithNewTextures(tex, ids) ==
    [t \in DOMAIN tex \cup (ids \ {None}) |->
        IF t \in DOMAIN tex THEN tex[t] ELSE ClearTexture]

\* the Blend chunk entered with the nested list starting from the mask state
\* and the counter of the parent
BlendChunkInheriting ==
    /\ phase = "record"
    /\ Top.pc = "loop"
    /\ Top.chunks # <<>>
    /\ Head(Top.chunks).kind = "Blend"
    /\ LET taken == BlendTake(texture_buffers)
           child == CommandTarget(taken.frame_buffer, taken.blend_buffer,
                                  taken.resolve_buffer, Top.target.depth)
           chunk == Head(Top.chunks)
           nested == Activation(chunk.commands, child,
                                NearestLayerFor(chunk.blend_mode, child,
                                                Top.nearest_layer),
                                FALSE)
       IN  /\ texture_buffers' = taken.pool
           /\ textures' = WithNewTextures(textures,
                              {child.frame_buffer, child.blend_buffer,
                               child.resolve_buffer})
           /\ stack' = Append(SetTop(BlendEnter(Top, child)),
                              [nested EXCEPT !.num_masks = Top.num_masks,
                                             !.mask_state = Top.mask_state])
    /\ UNCHANGED <<scan, inputVars, libVars, phase, output, stencil, gpu, resolved>>

\* the Blend chunk entered with a child that uses the parent's blend buffer
BlendChunkOnParentBuffer ==
    /\ phase = "record"
    /\ Top.pc = "loop"
    /\ Top.chunks # <<>>
    /\ Head(Top.chunks).kind = "Blend"
    /\ LET taken == BlendTake(texture_buffers)
           child == CommandTarget(taken.frame_buffer, Top.target.blend_buffer,
                                  taken.resolve_buffer, Top.target.depth)
           chunk == Head(Top.chunks)
       IN  /\ texture_buffers' = taken.pool
           /\ textures' = WithNewTextures(textures,
                              {child.frame_buffer, taken.blend_buffer,
                               child.resolve_buffer})
           /\ stack' = Append(SetTop(BlendEnter(Top, child)),
                              Activation(chunk.commands, child,
                                         NearestLayerFor(chunk.blend_mode, child,
                                                         Top.nearest_layer),
                                         FALSE))
    /\ UNCHANGED <<scan, inputVars, libVars, phase, output, stencil, gpu, resolved>>

BlendChunk ==
    /\ phase = "record"
    /\ Top.pc = "loop"
    /\ Top.chunks # <<>>
    /\ Head(Top.chunks).kind = "Blend"
    /\ LET taken == BlendTake(texture_buffers)
           child == CommandTarget(taken.frame_buffer, taken.blend_buffer,
                                  taken.resolve_buffer, Top.target.depth)
           chunk == Head(Top.chunks)
       IN  /\ texture_buffers' = taken.pool
           /\ textures' = WithNewTextures(textures,
                              {child.frame_buffer, child.blend_buffer,
                               child.resolve_buffer})
           /\ stack' = Append(SetTop(BlendEnter(Top, child)),
                              Activation(chunk.commands, child,
                                         NearestLayerFor(chunk.blend_mode, child,
                                                         Top.nearest_layer),
                                         FALSE))
    /\ UNCHANGED <<scan, inputVars, libVars, phase, output, stencil, gpu, resolved>>

\* output.push(draw_encoder.finish()) and the return of execute
\* the return of execute that pushes no command buffer for an empty encoder
FinishSkippingEmpty ==
    /\ phase = "record"
    /\ Top.pc = "loop"
    /\ Top.chunks = <<>>
    /\ output' = IF Top.draw_encoder = <<>> THEN output
                 ELSE Append(output, Top.draw_encoder)
    /\ stack' = SubSeq(stack, 1, Len(stack) - 1)
    /\ phase' = IF Len(stack) = 1 THEN "submit" ELSE phase
    /\ UNCHANGED <<scan, inputVars, libVars, texture_buffers, gpuVars>>

Finish ==
    /\ phase = "record"
    /\ Top.pc = "loop"
    /\ Top.chunks = <<>>
    /\ output' = Append(output, Top.draw_encoder)
    /\ stack' = SubSeq(stack, 1, Len(stack) - 1)
    /\ phase' = IF Len(stack) = 1 THEN "submit" ELSE phase
    /\ UNCHANGED <<scan, inputVars, libVars, texture_buffers, gpuVars>>

\* The composite pass of a Blend chunk, after the recursive execute has
\* returned: the bind group of the child's colour view, the render pass on
\* the parent, the stencil reference of the parent's mask state, the bitmap
\* pipeline of that mask state and the quad over the whole frame.
\* produced_by is the place in output of the child's command buffer.
\* the composite pass with no stencil reference and the pipeline of NoMask
CompositePassUnmasked(f, produced_by) ==
    <<begin_render_pass(color_attachments(f.target, f.first),
                        depth_attachment(f.child, FALSE)),
      draw_indexed("bitmap", "NoMask", {color_view(f.child)},
                   TextureSource(color_view(f.child), produced_by),
                   Pixels, 6),
      end_render_pass>>

CompositePass(f, produced_by) ==
    <<begin_render_pass(color_attachments(f.target, f.first),
                        depth_attachment(f.child, FALSE))>>
    \o StencilReferenceFor(f.mask_state, f.num_masks)
    \o <<draw_indexed("bitmap", f.mask_state, {color_view(f.child)},
                      TextureSource(color_view(f.child), produced_by),
                      Pixels, 6),
         end_render_pass>>

\* the composite pass recorded with first left as it was
CompositeStillFirst(f, produced_by) ==
    [f EXCEPT !.draw_encoder = @ \o CompositePass(f, produced_by),
              !.child = NoTarget,
              !.blend_mode = "none",
              !.pc = "loop"]

Composite(f, produced_by) ==
    [f EXCEPT !.draw_encoder = @ \o CompositePass(f, produced_by),
              !.child = NoTarget,
              !.blend_mode = "none",
              !.first = FALSE,
              !.pc = "loop"]

\* the composite pass recorded with the child's buffers kept out of the pool
BlendCompositeKeeping ==
    /\ phase = "record"
    /\ Top.pc = "blend"
    /\ IF StencilReferenceOverflows(Top.mask_state, Top.num_masks)
       THEN /\ phase' = "panic"
            /\ UNCHANGED <<stack, texture_buffers>>
       ELSE /\ phase' = phase
            /\ stack' = SetTop(Composite(Top, Len(output)))
            /\ texture_buffers' = texture_buffers
    /\ UNCHANGED <<scan, inputVars, libVars, output, gpuVars>>

BlendComposite ==
    /\ phase = "record"
    /\ Top.pc = "blend"
    /\ IF StencilReferenceOverflows(Top.mask_state, Top.num_masks)
       THEN /\ phase' = "panic"
            /\ UNCHANGED <<stack, texture_buffers>>
       ELSE /\ phase' = phase
            /\ stack' = SetTop(Composite(Top, Len(output)))
            /\ texture_buffers' = ReturnBuffers(texture_buffers, Top.child)
    /\ UNCHANGED <<scan, inputVars, libVars, output, gpuVars>>


(***************************************************************************)
(* The pipelines of create_shape_pipeline (render/wgpu/src/pipelines.rs):  *)
(* per MaskState the stencil face state and the colour write mask, and per *)
(* family the blend state.                                                 *)
(***************************************************************************)
\* the stencil states with ClearMaskStencil keeping the marks
StencilFaceStateKeepOnClear(mask_state) ==
    CASE mask_state = "NoMask" -> [compare |-> "Always", pass_op |-> "Keep"]
      [] mask_state = "DrawMaskStencil" ->
             [compare |-> "Equal", pass_op |-> "IncrementClamp"]
      [] mask_state = "DrawMaskedContent" ->
             [compare |-> "Equal", pass_op |-> "Keep"]
      [] mask_state = "ClearMaskStencil" ->
             [compare |-> "Equal", pass_op |-> "Keep"]

StencilFaceState(mask_state) ==
    CASE mask_state = "NoMask" -> [compare |-> "Always", pass_op |-> "Keep"]
      [] mask_state = "DrawMaskStencil" ->
             [compare |-> "Equal", pass_op |-> "IncrementClamp"]
      [] mask_state = "DrawMaskedContent" ->
             [compare |-> "Equal", pass_op |-> "Keep"]
      [] mask_state = "ClearMaskStencil" ->
             [compare |-> "Equal", pass_op |-> "DecrementClamp"]

\* the colour write mask with the content of a mask written like any other
ColorWritesAlways(mask_state) == TRUE

\* ColorWrites::ALL (TRUE) or ColorWrites::empty() (FALSE)
ColorWrites(mask_state) ==
    mask_state = "NoMask" \/ mask_state = "DrawMaskedContent"

BlendState(family, src, dst) ==
    IF family = "blend" THEN src ELSE PREMULTIPLIED_ALPHA_BLENDING(src, dst)

\* the stencil buffer has 8 bits (Depth24PlusStencil8), read_mask = !0
StencilBits == 256

StencilTest(face, reference, value) ==
    face.compare = "Always" \/ value = reference % StencilBits

StencilOp(pass_op, value) ==
    CASE pass_op = "Keep" -> value
      [] pass_op = "IncrementClamp" ->
             IF value + 1 < StencilBits THEN value + 1 ELSE value
      [] pass_op = "DecrementClamp" -> IF value > 0 THEN value - 1 ELSE 0

(***************************************************************************)
(* The queue: the command buffers of output run in the order of output,    *)
(* each from its first call to its last.                                   *)
(***************************************************************************)
NoPass == [open |-> FALSE, view |-> None, resolve_target |-> None, reference |-> 0]

GpuAt(op) ==
    /\ phase = "submit"
    /\ gpu.buffer <= Len(output)
    /\ gpu.ip <= Len(output[gpu.buffer])
    /\ output[gpu.buffer][gpu.ip].op = op

GpuOp == output[gpu.buffer][gpu.ip]

GpuAdvance(pass) == [gpu EXCEPT !.ip = @ + 1, !.pass = pass]

\* LoadOp::Clear(TRANSPARENT) or LoadOp::Load of the colour attachment; the
\* stencil is always loaded
GpuBeginRenderPass ==
    /\ GpuAt("begin_render_pass")
    /\ textures' = IF GpuOp.color.load = "Clear"
                   THEN [textures EXCEPT ![GpuOp.color.view] = ClearTexture]
                   ELSE textures
    /\ gpu' = GpuAdvance([open |-> TRUE, view |-> GpuOp.color.view,
                          resolve_target |-> GpuOp.color.resolve_target,
                          reference |-> 0])
    /\ UNCHANGED <<scan, inputVars, libVars, execVars, stencil, resolved>>

GpuSetStencilReference ==
    /\ GpuAt("set_stencil_reference")
    /\ gpu' = GpuAdvance([gpu.pass EXCEPT !.reference = GpuOp.reference])
    /\ UNCHANGED <<scan, inputVars, libVars, execVars, textures, stencil, resolved>>

SourceColor(src, p) ==
    IF src.kind = "color" THEN src.color ELSE textures[src.view][p]

GpuDrawIndexed ==
    /\ GpuAt("draw_indexed")
    /\ LET call == GpuOp
           face == StencilFaceState(call.pipeline.mask_state)
           passes(p) == p \in call.px
                        /\ StencilTest(face, gpu.pass.reference, stencil[p])
       IN  /\ stencil' = [p \in Pixels |->
                             IF passes(p) THEN StencilOp(face.pass_op, stencil[p])
                             ELSE stencil[p]]
           /\ textures' =
                 [textures EXCEPT ![gpu.pass.view] =
                     [p \in Pixels |->
                         IF passes(p) /\ ColorWrites(call.pipeline.mask_state)
                         THEN BlendState(call.pipeline.family,
                                         SourceColor(call.src, p), @[p])
                         ELSE @[p]]]
    /\ gpu' = GpuAdvance(gpu.pass)
    /\ UNCHANGED <<scan, inputVars, libVars, execVars, resolved>>

\* store: true, and the resolve into resolve_target
GpuEndRenderPass ==
    /\ GpuAt("end_render_pass")
    /\ textures' = IF gpu.pass.resolve_target # None
                   THEN [textures EXCEPT ![gpu.pass.resolve_target] =
                                             textures[gpu.pass.view]]
                   ELSE textures
    /\ gpu' = GpuAdvance(NoPass)
    /\ UNCHANGED <<scan, inputVars, libVars, execVars, stencil, resolved>>

GpuCopyTextureToTexture ==
    /\ GpuAt("copy_texture_to_texture")
    /\ textures' = [textures EXCEPT ![GpuOp.dst] = textures[GpuOp.src]]
    /\ gpu' = GpuAdvance(gpu.pass)
    /\ UNCHANGED <<scan, inputVars, libVars, execVars, stencil, resolved>>

\* a command buffer has run to its end; the next one starts
GpuNextBuffer ==
    /\ phase = "submit"
    /\ gpu.buffer <= Len(output)
    /\ gpu.ip > Len(output[gpu.buffer])
    /\ resolved' = Append(resolved, textures)
    /\ gpu' = [gpu EXCEPT !.buffer = @ + 1, !.ip = 1]
    /\ phase' = IF gpu.buffer = Len(output) THEN "done" ELSE phase
    /\ UNCHANGED <<scan, inputVars, libVars, stack, output, texture_buffers, textures, stencil>>


(***************************************************************************)
(* The command lists the model is run on.                                  *)
(***************************************************************************)
Lists(alphabet, n) == UNION {[1..k -> alphabet] : k \in 0..n}

Red == DrawRect("red", {1})
Green == DrawRect("green", {2})
FullRed == DrawRect("red", Pixels)
FullGreen == DrawRect("green", Pixels)

\* Flat lists: any order of mask commands, draws and Blend commands.
FlatAlphabet ==
    {Red, PushMask, ActivateMask, DeactivateMask, PopMask,
     Blend(<<PushMask, Green>>, "Multiply")}

FlatFamily == Lists(FlatAlphabet, MaxLen)

\* Blend commands nested to MaxBlendDepth.
RECURSIVE DeepList(_)
DeepList(d) ==
    IF d = 0 THEN <<Green>>
    ELSE <<Red, Blend(DeepList(d - 1), IF d % 2 = 1 THEN "Layer" ELSE "Multiply")>>

RECURSIVE NestedLists(_)
NestedLists(d) ==
    IF d = 0 THEN {<<>>, <<Green>>}
    ELSE NestedLists(d - 1)
         \cup {<<Blend(DeepList(d - 1), m)>> : m \in {"Layer", "Normal"}}
         \cup {<<Red, Blend(DeepList(d - 1), "Screen"), Blend(<<Red>>, "Layer")>>}

DeepFamily ==
    {pre \o <<Blend(l, m)>> \o post :
        l \in NestedLists(MaxBlendDepth - 1),
        m \in {"Normal", "Layer", "Multiply"},
        pre \in {<<>>, <<FullGreen>>}, post \in {<<>>, <<Red>>}}

\* Well-formed mask nesting to MaxMaskDepth: the mask geometry is drawn
\* between PushMask and ActivateMask and again between DeactivateMask and
\* PopMask, the content in between.
MaskGeometry ==
    {<<DrawRect("white", {1})>>, <<RenderShape(0)>>,
     <<DrawRect("white", {2}), RenderShape(1)>>}

PlainContent ==
    {<<FullRed>>, <<RenderBitmap(0, {2}, TRUE), Red>>,
     <<Blend(<<FullGreen>>, "Normal")>>}

RECURSIVE MaskBlocks(_)
MaskBlocks(d) ==
    LET content == IF d = 1 THEN PlainContent
                   ELSE PlainContent
                        \cup {(<<FullRed>> \o b) \o <<Green>> : b \in MaskBlocks(d - 1)}
    IN  {(((((<<PushMask>> \o m) \o <<ActivateMask>>) \o c)
             \o <<DeactivateMask>>) \o m) \o <<PopMask>> :
            m \in MaskGeometry, c \in content}

WellFormedFamily ==
    {(pre \o b) \o post :
        b \in MaskBlocks(MaxMaskDepth),
        pre \in {<<>>, <<FullGreen>>}, post \in {<<>>, <<Red>>}}

\* Sibling Blend commands of one list.
SiblingFamily ==
    {<<Blend(<<Red>>, "Multiply"), Blend(<<Green>>, "Screen")>>,
     <<Blend(<<Red>>, "Multiply"), Blend(<<Red>>, "Screen")>>,
     <<Blend(<<Red>>, "Normal"), Blend(<<>>, "Layer")>>,
     <<FullGreen, Blend(<<Red>>, "Multiply"), Green, Blend(<<>>, "Normal")>>}

\* Shapes drawn in each of the four mask states.
ShapeFamily ==
    {<<RenderShape(0), RenderShape(1)>>,
     <<PushMask, RenderShape(1), ActivateMask, RenderShape(0), RenderShape(1),
       DeactivateMask, RenderShape(1), PopMask>>}

\* A Blend command inside an active mask, its nested list with a mask of
\* its own.
MaskedBlendFamily ==
    {<<PushMask, DrawRect("white", {1}), ActivateMask,
       Blend(<<FullGreen, PushMask, DrawRect("white", {2}), ActivateMask, FullRed,
               DeactivateMask, DrawRect("white", {2}), PopMask>>, "Normal"),
       DeactivateMask, DrawRect("white", {1}), PopMask>>}

Inputs ==
    FlatFamily \cup DeepFamily \cup WellFormedFamily \cup SiblingFamily
    \cup ShapeFamily \cup MaskedBlendFamily

\* the lists chunk_blends is run on by itself
ChunkAlphabet ==
    {Red, PushMask, Blend(<<>>, "Normal"), Blend(<<Green, PushMask>>, "Layer")}
ChunkInputs == Lists(ChunkAlphabet, MaxLen + 1)

(***************************************************************************)
(* chunk_blends, one iteration of  for command in commands  per step.      *)
(***************************************************************************)
ScanIdle ==
    [commands |-> <<>>, rest |-> <<>>, result |-> <<>>, current |-> <<>>,
     pc |-> "off"]

\* the state of the scan: result and current
ScanState == [result |-> scan.result, current |-> scan.current]

ScanNext(st) ==
    /\ scan' = [scan EXCEPT !.rest = Tail(@), !.result = st.result,
                            !.current = st.current]
    /\ UNCHANGED <<inputVars, libVars, execVars, gpuVars>>

ChunkBlendArm ==
    /\ scan.pc = "scan"
    /\ scan.rest # <<>>
    /\ IsBlend(Head(scan.rest))
    /\ ScanNext(ScanBlend(ScanState, Head(scan.rest)))

ChunkOtherArm ==
    /\ scan.pc = "scan"
    /\ scan.rest # <<>>
    /\ ~IsBlend(Head(scan.rest))
    /\ ScanNext(ScanOther(ScanState, Head(scan.rest)))

ChunkReturn ==
    /\ scan.pc = "scan"
    /\ scan.rest = <<>>
    /\ scan' = [scan EXCEPT !.result = FlushCurrent(scan.result, scan.current),
                            !.current = <<>>,
                            !.pc = "returned"]
    /\ UNCHANGED <<inputVars, libVars, execVars, gpuVars>>

(***************************************************************************)
(* CommandList::execute and the CommandHandler a CommandList is itself     *)
(* (render/src/commands.rs).  A handler call is the operation and its      *)
(* arguments.                                                              *)
(***************************************************************************)
HandlerCall(operation, args) == [operation |-> operation, args |-> args]

\* the arm of  match command  in CommandList::execute
MatchCommand(command) ==
    CASE command.op = "RenderBitmap" ->
             HandlerCall("render_bitmap",
                         <<command.bitmap, command.px, command.smoothing>>)
      [] command.op = "RenderShape" -> HandlerCall("render_shape", <<command.shape>>)
      [] command.op = "DrawRect" ->
             HandlerCall("draw_rect", <<command.color, command.px>>)
      [] command.op = "PushMask" -> HandlerCall("push_mask", <<>>)
      [] command.op = "ActivateMask" -> HandlerCall("activate_mask", <<>>)
      [] command.op = "DeactivateMask" -> HandlerCall("deactivate_mask", <<>>)
      [] command.op = "PopMask" -> HandlerCall("pop_mask", <<>>)
      [] command.op = "Blend" ->
             HandlerCall("blend", <<command.commands, command.blend_mode>>)

\* the calls of a list, a nested list being executed in place of its Blend
RECURSIVE MatchFlattened(_)
MatchFlattened(list) ==
    IF list = <<>> THEN <<>>
    ELSE (IF IsBlend(Head(list)) THEN MatchFlattened(Head(list).commands)
          ELSE <<MatchCommand(Head(list))>>) \o MatchFlattened(Tail(list))

\* one iteration of the loop that executes the nested list of a Blend itself
ExecuteCommandFlattening(command) == MatchFlattened(<<command>>)

\* one iteration of  for command in self.0 : the calls it makes
ExecuteCommand(command) == <<MatchCommand(command)>>

\* impl CommandHandler for CommandList: the Command a call pushes
HandlerPush(call) ==
    CASE call.operation = "render_bitmap" ->
             RenderBitmap(call.args[1], call.args[2], call.args[3])
      [] call.operation = "render_shape" -> RenderShape(call.args[1])
      [] call.operation = "draw_rect" -> DrawRect(call.args[1], call.args[2])
      [] call.operation = "push_mask" -> PushMask
      [] call.operation = "activate_mask" -> ActivateMask
      [] call.operation = "deactivate_mask" -> DeactivateMask
      [] call.operation = "pop_mask" -> PopMask
      [] call.operation = "blend" -> Blend(call.args[1], call.args[2])

RECURSIVE HandlerPushAll(_, _)
HandlerPushAll(handler, calls) ==
    IF calls = <<>> THEN handler
    ELSE HandlerPushAll(Append(handler, HandlerPush(Head(calls))), Tail(calls))

DispatchIdle ==
    [list |-> <<>>, rest |-> <<>>, calls |-> <<>>, handler |-> <<>>, pc |-> "off"]

\* one iteration of the loop of CommandList::execute
ListExecuteCommand ==
    /\ dispatch.pc = "execute"
    /\ dispatch.rest # <<>>
    /\ LET calls == ExecuteCommand(Head(dispatch.rest))
       IN  dispatch' = [dispatch EXCEPT
                           !.rest = Tail(@),
                           !.calls = @ \o calls,
                           !.handler = HandlerPushAll(@, calls)]
    /\ UNCHANGED <<scan, inputVars, execVars, gpuVars, descriptors, contexts, answers>>

ListExecuteReturn ==
    /\ dispatch.pc = "execute"
    /\ dispatch.rest = <<>>
    /\ dispatch' = [dispatch EXCEPT !.pc = "returned"]
    /\ UNCHANGED <<scan, inputVars, execVars, gpuVars, descriptors, contexts, answers>>

\* the lists CommandList::execute is run on
DispatchAlphabet ==
    {RenderBitmap(0, {2}, TRUE), RenderShape(1), Red, PushMask, ActivateMask,
     DeactivateMask, PopMask, Blend(<<Green, PopMask>>, "Multiply"),
     Blend(<<Blend(<<Red>>, "Layer")>>, "Screen")}
DispatchInputs == Lists(DispatchAlphabet, MaxLen)

(***************************************************************************)
(* Descriptors (render/wgpu/src/descriptors.rs): the blend buffers made in *)
(* Descriptors::new and the three caches, each behind its Mutex.  An       *)
(* object is known by what it is and by a serial that stands for the       *)
(* address of its allocation.                                              *)
(***************************************************************************)
NumContexts == 2
MaxRequests == 3

Contexts == 1..NumContexts

MAX_BLEND_MODES == 13

SampleCounts == {1, 4}
Formats == {"Rgba8Unorm", "Bgra8Unorm"}

Caches == {"pipelines", "copy_pipeline", "copy_srgb_pipeline"}

\* a request: the function called and its arguments
PipelinesRequest(msaa_sample_count, format) ==
    [function |-> "pipelines", key |-> <<msaa_sample_count, format>>]
CopyPipelineRequest(format) == [function |-> "copy_pipeline", key |-> <<format>>]
CopySrgbPipelineRequest(format) ==
    [function |-> "copy_srgb_pipeline", key |-> <<format>>]
BlendBufferRequest(blend_mode) ==
    [function |-> "blend_buffer", key |-> <<blend_mode>>]

CacheRequests ==
    {PipelinesRequest(n, f) : n \in SampleCounts, f \in Formats}
    \cup {CopyPipelineRequest(f) : f \in Formats}
    \cup {CopySrgbPipelineRequest(f) : f \in Formats}

BlendBufferRequests ==
    {BlendBufferRequest(m) :
        m \in {"Normal", "Layer", "Multiply", "Screen", "Lighten", "Darken",
               "Difference", "Add", "Subtract", "Invert", "Alpha", "Erase",
               "Overlay", "HardLight"}}

\* create_buffer_with_data(.., cast_slice(&[blend_id, 0, 0, 0]), ..)
BlendBufferObject(blend_id) == [kind |-> "Buffer", serial |-> blend_id]

\* Arc::new(Pipelines::new(..)) and Arc::new(device.create_render_pipeline(..))
NewObject(function, serial) == [kind |-> function, serial |-> serial]

EmptyCache == [k \in {} |-> 0]

\* Descriptors::new
DescriptorsNew ==
    [blend_buffers |-> [i \in 1..MAX_BLEND_MODES |-> BlendBufferObject(i - 1)],
     copy_pipeline |-> EmptyCache,
     copy_srgb_pipeline |-> EmptyCache,
     pipelines |-> EmptyCache,
     locked |-> [c \in Caches |-> 0],
     next_serial |-> MAX_BLEND_MODES]

\* an index of its own for each of the 14 modes
BlendIndexDistinct(blend_mode) ==
    CASE blend_mode = "Normal" -> 0
      [] blend_mode = "Layer" -> 1
      [] blend_mode = "Multiply" -> 2
      [] blend_mode = "Screen" -> 3
      [] blend_mode = "Lighten" -> 4
      [] blend_mode = "Darken" -> 5
      [] blend_mode = "Difference" -> 6
      [] blend_mode = "Add" -> 7
      [] blend_mode = "Subtract" -> 8
      [] blend_mode = "Invert" -> 9
      [] blend_mode = "Alpha" -> 10
      [] blend_mode = "Erase" -> 11
      [] blend_mode = "Overlay" -> 12
      [] blend_mode = "HardLight" -> 13

\* the index  match blend_mode { .. }  of blend_buffer gives
BlendIndex(blend_mode) ==
    CASE blend_mode = "Normal" -> 0
      [] blend_mode = "Layer" -> 0
      [] blend_mode = "Multiply" -> 1
      [] blend_mode = "Screen" -> 2
      [] blend_mode = "Lighten" -> 3
      [] blend_mode = "Darken" -> 4
      [] blend_mode = "Difference" -> 5
      [] blend_mode = "Add" -> 6
      [] blend_mode = "Subtract" -> 7
      [] blend_mode = "Invert" -> 8
      [] blend_mode = "Alpha" -> 9
      [] blend_mode = "Erase" -> 10
      [] blend_mode = "Overlay" -> 11
      [] blend_mode = "HardLight" -> 12

\* &self.blend_buffers[index]: an index out of the array panics
IndexInRange(index) == index < MAX_BLEND_MODES

blend_buffer(self, blend_mode) == self.blend_buffers[BlendIndex(blend_mode) + 1]

\* the entry always built anew
EntryInsert(cache, key, object) ==
    [object |-> object,
     cache |-> [k \in DOMAIN cache \cup {key} |->
                   IF k = key THEN object ELSE cache[k]],
     built |-> TRUE]

\* .entry(key).or_insert_with(|| ..).clone()
EntryOrInsertWith(cache, key, object) ==
    IF key \in DOMAIN cache
    THEN [object |-> cache[key], cache |-> cache, built |-> FALSE]
    ELSE [object |-> object,
          cache |-> [k \in DOMAIN cache \cup {key} |->
                        IF k = key THEN object ELSE cache[k]],
          built |-> TRUE]

ContextIdle == [pc |-> "idle", request |-> BlendBufferRequest("Normal"),
                result |-> BlendBufferObject(0), requests |-> 0]

\* the calls the contexts have made so far, all together
RECURSIVE RequestsMade(_)
RequestsMade(n) == IF n = 0 THEN 0 ELSE contexts[n].requests + RequestsMade(n - 1)

\* a context calls one of the functions
Call(c, requests) ==
    /\ contexts[c].pc \in {"idle", "returned"}
    /\ RequestsMade(NumContexts) < MaxRequests
    /\ \E r \in requests :
          contexts' = [contexts EXCEPT ![c].pc = "call", ![c].request = r,
                                       ![c].requests = @ + 1]
    /\ UNCHANGED <<scan, inputVars, execVars, gpuVars, dispatch, descriptors, answers>>

CallCache(c) == Call(c, CacheRequests)
CallBlendBuffer(c) == Call(c, BlendBufferRequests)

\* the lock taken without waiting for the context that holds it
LockCacheNoWait(c) ==
    /\ contexts[c].pc = "call"
    /\ contexts[c].request.function \in Caches
    /\ descriptors' = [descriptors EXCEPT
                          !.locked[contexts[c].request.function] = c]
    /\ contexts' = [contexts EXCEPT ![c].pc = "locked"]
    /\ UNCHANGED <<scan, inputVars, execVars, gpuVars, dispatch, answers>>

\* self.<cache>.lock().expect(..): the context waits until the mutex is free
LockCache(c) ==
    /\ contexts[c].pc = "call"
    /\ contexts[c].request.function \in Caches
    /\ descriptors.locked[contexts[c].request.function] = 0
    /\ descriptors' = [descriptors EXCEPT
                          !.locked[contexts[c].request.function] = c]
    /\ contexts' = [contexts EXCEPT ![c].pc = "locked"]
    /\ UNCHANGED <<scan, inputVars, execVars, gpuVars, dispatch, answers>>

\* the first answer of a request is kept
Answered(request, object) ==
    LET k == <<request.function, request.key>>
    IN  IF k \in DOMAIN answers THEN answers
        ELSE [a \in DOMAIN answers \cup {k} |->
                 IF a = k THEN object ELSE answers[a]]

\* the lookup or insert under the lock, the clone, and the return that drops
\* the guard
EntryOf(c, function) ==
    /\ contexts[c].pc = "locked"
    /\ contexts[c].request.function = function
    /\ LET e == EntryOrInsertWith(descriptors[function], contexts[c].request.key,
                                  NewObject(function, descriptors.next_serial))
       IN  /\ descriptors' = [descriptors EXCEPT
                                 ![function] = e.cache,
                                 !.locked[function] = 0,
                                 !.next_serial = IF e.built THEN @ + 1 ELSE @]
           /\ contexts' = [contexts EXCEPT ![c].pc = "returned",
                                           ![c].result = e.object]
           /\ answers' = Answered(contexts[c].request, e.object)
    /\ UNCHANGED <<scan, inputVars, execVars, gpuVars, dispatch>>

PipelinesEntry(c) == EntryOf(c, "pipelines")
CopyPipelineEntry(c) == EntryOf(c, "copy_pipeline")
CopySrgbPipelineEntry(c) == EntryOf(c, "copy_srgb_pipeline")

\* Descriptors::blend_buffer
BlendBufferLookup(c) ==
    /\ contexts[c].pc = "call"
    /\ contexts[c].request.function = "blend_buffer"
    /\ LET blend_mode == contexts[c].request.key[1]
       IN  IF IndexInRange(BlendIndex(blend_mode))
           THEN /\ contexts' = [contexts EXCEPT
                                   ![c].pc = "returned",
                                   ![c].result = blend_buffer(descriptors, blend_mode)]
                /\ answers' = Answered(contexts[c].request,
                                       blend_buffer(descriptors, blend_mode))
           ELSE /\ contexts' = [contexts EXCEPT ![c].pc = "panic"]
                /\ answers' = answers
    /\ UNCHANGED <<scan, inputVars, execVars, gpuVars, dispatch, descriptors>>

(***************************************************************************)
(* Specifications.                                                         *)
(***************************************************************************)
InitIdle ==
    /\ stack = <<>>
    /\ output = <<>>
    /\ texture_buffers = [frame_buffers |-> <<>>, resolve_buffers |-> <<>>,
                          blend_buffers |-> <<>>, next |-> 4]
    /\ textures = [t \in 1..3 |-> IF t = 2 THEN ClearTexture
                                  ELSE [p \in Pixels |-> "blue"]]
    /\ stencil = [p \in Pixels |-> 0]
    /\ gpu = [buffer |-> 1, ip |-> 1, pass |-> NoPass]
    /\ resolved = <<>>
    /\ descriptors = DescriptorsNew
    /\ contexts = [c \in Contexts |-> ContextIdle]
    /\ answers = EmptyCache

Init ==
    /\ dispatch = DispatchIdle
    /\ scan = ScanIdle
    /\ commands \in Inputs
    /\ debug_assertions \in BOOLEAN
    /\ msaa \in BOOLEAN
    /\ phase = "idle"
    /\ InitIdle

Next ==
    \/ Execute
    \/ BeginDrawChunk
    \/ RenderBitmapCommand
    \/ RenderShapeCommand
    \/ DrawRectCommand
    \/ PushMaskCommand
    \/ ActivateMaskCommand
    \/ DeactivateMaskCommand
    \/ PopMaskCommand
    \/ EndDrawChunk
    \/ BlendChunk
    \/ BlendComposite
    \/ Finish
    \/ GpuBeginRenderPass
    \/ GpuSetStencilReference
    \/ GpuDrawIndexed
    \/ GpuEndRenderPass
    \/ GpuCopyTextureToTexture
    \/ GpuNextBuffer

Spec == Init /\ [][Next]_vars

InitChunk ==
    /\ dispatch = DispatchIdle
    /\ \E c \in ChunkInputs :
          scan = [commands |-> c, rest |-> c, result |-> <<>>, current |-> <<>>,
                  pc |-> "scan"]
    /\ commands = <<>>
    /\ debug_assertions = FALSE
    /\ msaa = FALSE
    /\ phase = "off"
    /\ InitIdle

NextChunk == ChunkBlendArm \/ ChunkOtherArm \/ ChunkReturn

SpecChunk == InitChunk /\ [][NextChunk]_vars

\* CommandList::execute on its own
InitOff ==
    /\ scan = ScanIdle
    /\ commands = <<>>
    /\ debug_assertions = FALSE
    /\ msaa = FALSE
    /\ phase = "off"
    /\ InitIdle

InitDispatch ==
    /\ \E list \in DispatchInputs :
          dispatch = [list |-> list, rest |-> list, calls |-> <<>>,
                      handler |-> <<>>, pc |-> "execute"]
    /\ InitOff

NextDispatch == ListExecuteCommand \/ ListExecuteReturn

SpecDispatch == InitDispatch /\ [][NextDispatch]_vars

\* the contexts calling into Descriptors
InitDescriptors ==
    /\ dispatch = DispatchIdle
    /\ InitOff

NextDescriptors ==
    \E c \in Contexts :
        \/ CallCache(c)
        \/ LockCache(c)
        \/ PipelinesEntry(c)
        \/ CopyPipelineEntry(c)
        \/ CopySrgbPipelineEntry(c)

SpecDescriptors == InitDescriptors /\ [][NextDescriptors]_vars

\* Descriptors::blend_buffer, called by the context that interprets commands
NextBlendBuffer == CallBlendBuffer(1) \/ BlendBufferLookup(1)

SpecBlendBuffer == InitDescriptors /\ [][NextBlendBuffer]_vars


(***************************************************************************)
(* Definitions the properties are stated with.                             *)
(***************************************************************************)
\* the commands of a chunk sequence, in order
RECURSIVE Flatten(_)
Flatten(chunks) ==
    IF chunks = <<>> THEN <<>>
    ELSE LET c == Head(chunks)
         IN  (IF c.kind = "Draw" THEN c.commands
              ELSE <<Blend(c.commands, c.blend_mode)>>) \o Flatten(Tail(chunks))

IsBlendChunk(chunk) == chunk.kind = "Blend"

Range(seq) == {seq[i] : i \in 1..Len(seq)}

\* how many commands of its list an activation has taken up so far
ProcessedCount(f) ==
    (Len(f.commands) - Len(Flatten(f.chunks))) - Len(f.chunk)

Processed(f) == SubSeq(f.commands, 1, ProcessedCount(f))

\* the counter and the state of an activation: those of the renderer while
\* a Draw chunk is open, else the locals of execute
CurrentNumMasks(f) == IF f.pc = "draw" THEN f.renderer.num_masks ELSE f.num_masks
CurrentMaskState(f) == IF f.pc = "draw" THEN f.renderer.mask_state ELSE f.mask_state

IsMaskCommand(c) ==
    c.op \in {"PushMask", "ActivateMask", "DeactivateMask", "PopMask"}

\* the PushMask commands of a list that no PopMask has matched
RECURSIVE Unmatched(_)
Unmatched(list) ==
    IF list = <<>> THEN 0
    ELSE LET before == Unmatched(SubSeq(list, 1, Len(list) - 1))
             last == list[Len(list)]
         IN  CASE last.op = "PushMask" -> before + 1
               [] last.op = "PopMask" -> IF before > 0 THEN before - 1 ELSE 0
               [] OTHER -> before

\* the state the transition table gives after the most recent mask command
RECURSIVE TableState(_)
TableState(list) ==
    IF list = <<>> THEN "NoMask"
    ELSE LET last == list[Len(list)]
         IN  CASE last.op = "PushMask" -> "DrawMaskStencil"
               [] last.op = "ActivateMask" -> "DrawMaskedContent"
               [] last.op = "DeactivateMask" -> "ClearMaskStencil"
               [] last.op = "PopMask" ->
                      IF Unmatched(list) > 0 THEN "DrawMaskedContent" ELSE "NoMask"
               [] OTHER -> TableState(SubSeq(list, 1, Len(list) - 1))

\* the precondition of a mask command in the transition table
TablePrecondition(op, state, counter) ==
    CASE op = "PushMask" -> state \in {"NoMask", "DrawMaskedContent"}
      [] op = "ActivateMask" -> state = "DrawMaskStencil" /\ counter > 0
      [] op = "DeactivateMask" -> state = "DrawMaskedContent" /\ counter > 0
      [] op = "PopMask" -> state = "ClearMaskStencil" /\ counter > 0
      [] OTHER -> TRUE

\* every mask command of the list is issued under its precondition
RECURSIVE FollowsTable(_)
FollowsTable(list) ==
    \/ list = <<>>
    \/ LET before == SubSeq(list, 1, Len(list) - 1)
       IN  /\ FollowsTable(before)
           /\ TablePrecondition(list[Len(list)].op, TableState(before),
                                Unmatched(before))

\* Push / Activate / Deactivate / Pop nested in matching pairs
WellFormed(list) == FollowsTable(list) /\ Unmatched(list) = 0

HasOp(list, op) == \E i \in 1..Len(list) : list[i].op = op

\* a step of the command loop of the open Draw chunk of the top activation
CommandStep ==
    /\ phase = "record" /\ phase' = "record"
    /\ Len(stack') = Len(stack)
    /\ Top.pc = "draw" /\ stack'[Len(stack')].pc = "draw"
    /\ Top.chunk # <<>>
    /\ stack'[Len(stack')].chunk = Tail(Top.chunk)

(***************************************************************************)
(* C1: chunk_blends is order-preserving.  At every iteration the chunks    *)
(* pushed so far, then the pending run, then the commands not yet scanned  *)
(* are the input list; so the returned chunks, concatenated (a Draw chunk  *)
(* gives its commands, a Blend chunk its one Blend command with the nested *)
(* list and mode unchanged), are the input with nothing lost, duplicated   *)
(* or reordered.                                                           *)
(***************************************************************************)
C1_ChunksReproduceInput ==
    scan.pc # "off" =>
        /\ (Flatten(scan.result) \o scan.current) \o scan.rest = scan.commands
        /\ scan.pc = "returned" => Flatten(scan.result) = scan.commands

C1_Witness ==
    /\ scan.pc = "returned"
    /\ Len(scan.result) >= 3
    /\ \E i \in 1..Len(scan.result) :
          scan.result[i].kind = "Draw" /\ Len(scan.result[i].commands) >= 2
    /\ \E i \in 1..Len(scan.result) :
          scan.result[i].kind = "Blend" /\ scan.result[i].commands # <<>>

(***************************************************************************)
(* C2: chunking is Blend-isolating.  For the list of every activation of   *)
(* execute (the top-level list and every nested list) no Draw chunk holds  *)
(* a Blend command, the Blend chunks are the list's Blend commands one for *)
(* one, and the command loop of a Draw chunk never stands at a Blend       *)
(* command, so its unreachable! arm is never reached.                      *)
(***************************************************************************)
C2_BlendIsolated ==
    /\ ~BlendInDrawChunk
    /\ \A i \in 1..Len(stack) :
          LET f == stack[i]
              chunks == chunk_blends(f.commands)
          IN  /\ \A k \in 1..Len(chunks) :
                    chunks[k].kind = "Draw" =>
                        \A c \in Range(chunks[k].commands) : ~IsBlend(c)
              /\ Flatten(SelectSeq(chunks, IsBlendChunk))
                     = SelectSeq(f.commands, IsBlend)
              /\ \A c \in Range(f.chunk) : ~IsBlend(c)
              /\ \A k \in 1..Len(f.chunks) :
                    f.chunks[k].kind = "Draw" =>
                        \A c \in Range(f.chunks[k].commands) : ~IsBlend(c)

C2_Witness ==
    /\ phase = "record"
    /\ Len(stack) >= 2
    /\ Top.pc = "draw"
    /\ Top.chunk = <<>>
    /\ Top.chunks # <<>>
    /\ Head(Top.chunks).kind = "Blend"

(***************************************************************************)
(* C3: at every point of the execution of a list on a target, num_masks is *)
(* the number of PushMask commands taken up so far on that target that no  *)
(* PopMask has matched, and mask_state is the state the transition table   *)
(* gives after the most recent mask command on that target.                *)
(***************************************************************************)
C3_CounterIsUnmatchedPushes ==
    phase = "record" =>
        \A i \in 1..Len(stack) :
            LET f == stack[i]
            IN  /\ CurrentNumMasks(f) = Unmatched(Processed(f))
                /\ CurrentMaskState(f) = TableState(Processed(f))

(***************************************************************************)
(* C4: mask counter balance.  For every activation whose list is well      *)
(* formed (mask commands nested in matching pairs, draws and Blend         *)
(* commands in between), once the last PopMask of the list is taken up the *)
(* counter is 0 and the state is NoMask.                                   *)
(***************************************************************************)
LastPop(list) ==
    LET pops == {i \in 1..Len(list) : list[i].op = "PopMask"}
    IN  CHOOSE i \in pops : \A j \in pops : j <= i

C4_BalancedAfterLastPop ==
    phase = "record" =>
        \A i \in 1..Len(stack) :
            LET f == stack[i]
            IN  (/\ WellFormed(f.commands)
                 /\ HasOp(f.commands, "PopMask")
                 /\ ProcessedCount(f) >= LastPop(f.commands))
                => (CurrentNumMasks(f) = 0 /\ CurrentMaskState(f) = "NoMask")

C4_Witness ==
    /\ phase = "record"
    /\ Len(stack) = 1
    /\ WellFormed(Top.commands)
    /\ HasOp(Top.commands, "Blend")
    /\ \E k \in 1..Len(Top.commands) : Unmatched(SubSeq(Top.commands, 1, k)) = 2
    /\ ProcessedCount(Top) = LastPop(Top.commands)
    /\ Top.pc = "draw"
    /\ Top.renderer.num_masks = 0

(***************************************************************************)
(* C5: every mask command issued under its precondition makes exactly the  *)
(* transition of the table (the counter is a u32, + 1 and - 1 are those of *)
(* u32), and RenderBitmap, RenderShape and DrawRect change neither the     *)
(* state nor the counter.                                                  *)
(***************************************************************************)
TableTransition(op, before, after) ==
    CASE op = "PushMask" ->
             before.mask_state \in {"NoMask", "DrawMaskedContent"}
             => /\ after.mask_state = "DrawMaskStencil"
                /\ after.num_masks = AddOne(before.num_masks)
      [] op = "ActivateMask" ->
             (before.mask_state = "DrawMaskStencil" /\ IsPositive(before.num_masks))
             => /\ after.mask_state = "DrawMaskedContent"
                /\ after.num_masks = before.num_masks
      [] op = "DeactivateMask" ->
             (before.mask_state = "DrawMaskedContent" /\ IsPositive(before.num_masks))
             => /\ after.mask_state = "ClearMaskStencil"
                /\ after.num_masks = before.num_masks
      [] op = "PopMask" ->
             (before.mask_state = "ClearMaskStencil" /\ IsPositive(before.num_masks))
             => /\ after.num_masks = SubOne(before.num_masks)
                /\ after.mask_state = IF IsPositive(after.num_masks)
                                      THEN "DrawMaskedContent" ELSE "NoMask"
      [] OTHER ->
             /\ after.mask_state = before.mask_state
             /\ after.num_masks = before.num_masks

C5_TableTransitions ==
    [][CommandStep =>
         TableTransition(Head(Top.chunk).op, Top.renderer,
                         stack'[Len(stack')].renderer)]_vars

C5_Witness ==
    /\ phase = "record"
    /\ Top.pc = "draw"
    /\ Top.renderer.mask_state = "DrawMaskedContent"
    /\ Top.renderer.num_masks = 1
    /\ Len(Processed(Top)) >= 6
    /\ Processed(Top)[Len(Processed(Top))].op = "PopMask"
    /\ HasOp(Processed(Top), "RenderShape")

\* the call recorded last on the render pass of a renderer
LastCall(renderer) == renderer.render_pass[Len(renderer.render_pass)]

(***************************************************************************)
(* C6: stencil reference monotonicity.  In a well-formed list, a PushMask  *)
(* taken up under j unmatched pushes (it is the (j + 1)-th nested one)     *)
(* sets the stencil reference j, so nesting to depth N gives 0 .. N - 1,   *)
(* and a PopMask taken up under j unmatched pushes sets j - 1, the counter *)
(* after the decrement, which is the reference the masked content of the   *)
(* enclosing level is drawn with.                                          *)
(***************************************************************************)
C6_StencilReferenceMonotonic ==
    [][(CommandStep /\ WellFormed(Top.commands)) =>
          LET op == Head(Top.chunk).op
              depth == Unmatched(Processed(Top))
              after == stack'[Len(stack')].renderer
          IN  /\ op = "PushMask" =>
                    LastCall(after) = set_stencil_reference(depth)
              /\ op = "PopMask" =>
                    /\ LastCall(after) = set_stencil_reference(depth - 1)
                    /\ <<LastCall(after)>> =
                           StencilReferenceFor("DrawMaskedContent", depth - 1)]_vars

C6_Witness ==
    /\ phase = "record"
    /\ Top.pc = "draw"
    /\ WellFormed(Top.commands)
    /\ Processed(Top) # <<>>
    /\ Processed(Top)[Len(Processed(Top))].op = "PopMask"
    /\ Unmatched(Processed(Top)) = 1
    /\ LastCall(Top.renderer) = set_stencil_reference(1)
    /\ \E i \in 1..Len(Top.renderer.render_pass) :
          Top.renderer.render_pass[i] = set_stencil_reference(0)

(***************************************************************************)
(* What a list is meant to show, stated without the GPU: a draw paints its *)
(* pixels over what is there, and a Blend command paints its nested list   *)
(* on a transparent layer of its own and lays that layer over the parent.  *)
(***************************************************************************)
IsDraw(c) == c.op \in {"RenderBitmap", "RenderShape", "DrawRect"}

PaintOver(px, color, dst) ==
    [p \in Pixels |->
        IF p \in px THEN PREMULTIPLIED_ALPHA_BLENDING(color, dst[p]) ELSE dst[p]]

RECURSIVE PaintMesh(_, _)
PaintMesh(draws, dst) ==
    IF draws = <<>> THEN dst
    ELSE PaintMesh(Tail(draws),
                   PaintOver(Head(draws).fill_px \cup Head(draws).stroke_px,
                             Head(draws).color, dst))

RECURSIVE Composited(_, _)
Composited(list, dst) ==
    IF list = <<>> THEN dst
    ELSE LET c == Head(list)
             painted ==
                 CASE c.op = "DrawRect" -> PaintOver(c.px, c.color, dst)
                   [] c.op = "RenderBitmap" ->
                          PaintOver(c.px, Bitmaps[c.bitmap + 1], dst)
                   [] c.op = "RenderShape" -> PaintMesh(Meshes[c.shape + 1], dst)
                   [] c.op = "Blend" ->
                          LET layer == Composited(c.commands, ClearTexture)
                          IN  [p \in Pixels |->
                                  PREMULTIPLIED_ALPHA_BLENDING(layer[p], dst[p])]
                   [] OTHER -> dst
         IN  Composited(Tail(list), painted)

\* the pixels a list of draws covers when it is drawn as a mask: the strokes
\* of a shape are no part of a mask
RECURSIVE MaskCoverage(_)
MaskCoverage(list) ==
    IF list = <<>> THEN {}
    ELSE LET c == Head(list)
         IN  (IF c.op = "RenderShape"
              THEN UNION {d.fill_px : d \in Range(Meshes[c.shape + 1])}
              ELSE c.px) \cup MaskCoverage(Tail(list))

\* the place of the one command `op` of a single-level list
PlaceOf(list, op) == CHOOSE i \in 1..Len(list) : list[i].op = op

\* [PushMask, M, ActivateMask, content, DeactivateMask, M, PopMask] where M
\* and the content are draws
SingleLevel(list) ==
    /\ Len(list) >= 4
    /\ list[1] = PushMask
    /\ list[Len(list)] = PopMask
    /\ Cardinality({i \in 1..Len(list) : IsMaskCommand(list[i])}) = 4
    /\ HasOp(list, "ActivateMask")
    /\ HasOp(list, "DeactivateMask")
    /\ PlaceOf(list, "ActivateMask") < PlaceOf(list, "DeactivateMask")
    /\ \A i \in 1..Len(list) : IsMaskCommand(list[i]) \/ IsDraw(list[i])
    /\ SubSeq(list, 2, PlaceOf(list, "ActivateMask") - 1)
           = SubSeq(list, PlaceOf(list, "DeactivateMask") + 1, Len(list) - 1)

MaskDraws(list) == SubSeq(list, 2, PlaceOf(list, "ActivateMask") - 1)
ContentDraws(list) ==
    SubSeq(list, PlaceOf(list, "ActivateMask") + 1,
           PlaceOf(list, "DeactivateMask") - 1)

\* the draws of the command buffer the queue is in that use the pipelines of
\* mask_state: those already run, and those still to run
DrawsRun(mask_state) ==
    {i \in 1..(gpu.ip - 1) :
        /\ output[1][i].op = "draw_indexed"
        /\ output[1][i].pipeline.mask_state = mask_state}
DrawsLeft(mask_state) ==
    {i \in gpu.ip..Len(output[1]) :
        /\ output[1][i].op = "draw_indexed"
        /\ output[1][i].pipeline.mask_state = mask_state}


(***************************************************************************)
(* C7: the single-level mask sequence [PushMask, M, ActivateMask, content, *)
(* DeactivateMask, M, PopMask] on a target whose stencil is 0 everywhere.  *)
(* When the mask draws have run and no clearing draw has run yet, the      *)
(* stencil is 1 exactly on the pixels M covers and 0 elsewhere; when the   *)
(* clearing draws have run it is 0 everywhere again; no draw of M, in the  *)
(* marking or in the clearing phase, changes a colour; at the end the      *)
(* content shows exactly on the pixels M covers and the rest is the        *)
(* cleared target; and the recording ends in NoMask with counter 0.        *)
(***************************************************************************)
C7_StateOfSingleLevelMask ==
    SingleLevel(commands) =>
        LET cov == MaskCoverage(MaskDraws(commands))
            content == Composited(ContentDraws(commands), ClearTexture)
        IN  /\ (phase = "record" /\ Top.pc = "loop" /\ Top.chunks = <<>>)
                   => (Top.num_masks = 0 /\ Top.mask_state = "NoMask")
            /\ (/\ phase = "submit"
                /\ gpu.buffer = 1
                /\ DrawsLeft("DrawMaskStencil") = {}
                /\ DrawsRun("ClearMaskStencil") = {})
                   => stencil = [p \in Pixels |-> IF p \in cov THEN 1 ELSE 0]
            /\ (/\ phase = "submit"
                /\ gpu.buffer = 1
                /\ DrawsLeft("DrawMaskStencil") = {}
                /\ DrawsLeft("ClearMaskStencil") = {})
                   => stencil = [p \in Pixels |-> 0]
            /\ phase = "done"
                   => /\ stencil = [p \in Pixels |-> 0]
                      /\ textures[color_view(RootTarget)] =
                             [p \in Pixels |->
                                 IF p \in cov THEN content[p] ELSE Transparent]

C7_MaskDrawsChangeNoColor ==
    (/\ SingleLevel(commands)
     /\ GpuAt("draw_indexed")
     /\ GpuOp.pipeline.mask_state \in {"DrawMaskStencil", "ClearMaskStencil"}
     /\ gpu'.ip = gpu.ip + 1)
        => textures' = textures

C7_SingleLevelMask ==
    /\ []C7_StateOfSingleLevelMask
    /\ [][C7_MaskDrawsChangeNoColor]_vars

C7_Witness ==
    /\ phase = "done"
    /\ SingleLevel(commands)
    /\ HasOp(MaskDraws(commands), "RenderShape")
    /\ MaskCoverage(MaskDraws(commands)) = {1}
    /\ textures[color_view(RootTarget)] = [p \in Pixels |->
                                              IF p = 1 THEN "red" ELSE Transparent]


\* a command tree of draws and Blend commands only
RECURSIVE MaskFree(_)
MaskFree(list) ==
    \A i \in 1..Len(list) :
        \/ IsDraw(list[i])
        \/ IsBlend(list[i]) /\ MaskFree(list[i].commands)

(***************************************************************************)
(* C8: blend order equivalence.  With the command buffers run in the order *)
(* of output and the targets of the Blend commands taken from the one      *)
(* pool, (a) the composite draw of a Blend command samples the colour its  *)
(* own nested list was resolved to, when the child's command buffer had    *)
(* run, and (b) for a tree of draws and Blend commands the visible result  *)
(* is that of compositing the tree depth first, a nested list before the   *)
(* Blend command that holds it and the commands of a list left to right,   *)
(* on the target as its first pass clears it.                              *)
(***************************************************************************)
C8_BlendOrderEquivalence ==
    /\ (GpuAt("draw_indexed") /\ GpuOp.src.kind = "texture")
           => textures[GpuOp.src.view]
                  = resolved[GpuOp.src.produced_by][GpuOp.src.view]
    /\ (phase = "done" /\ commands # <<>> /\ MaskFree(commands))
           => textures[color_view(RootTarget)] = Composited(commands, ClearTexture)


\* swf::BlendMode, as the match of Descriptors::blend_buffer lists it
BlendMode ==
    {"Normal", "Layer", "Multiply", "Screen", "Lighten", "Darken", "Difference",
     "Add", "Subtract", "Invert", "Alpha", "Erase", "Overlay", "HardLight"}

\* the draw of the quad in a composite pass
CompositeDraw(pass) == pass[Len(pass) - 1]

(***************************************************************************)
(* C9: the composite step of a Blend chunk.  When the recursive execute    *)
(* has returned, the pass the chunk records on the parent draws the quad   *)
(* with a pipeline of the blend family, has both the parent's blend-source *)
(* buffer (the snapshot) and the child's resolved colour bound, and is a   *)
(* different pass for every other blend mode of the same chunk.            *)
(***************************************************************************)
C9_CompositeIsModeSpecific ==
    (phase = "record" /\ Top.pc = "blend") =>
        LET pass == CompositePass(Top, Len(output))
        IN  /\ CompositeDraw(pass).op = "draw_indexed"
            /\ CompositeDraw(pass).pipeline.family = "blend"
            /\ {Top.target.blend_buffer, color_view(Top.child)}
                   \subseteq CompositeDraw(pass).binds
            /\ \A m \in BlendMode \ {Top.blend_mode, "Normal", "Layer"} :
                  CompositePass([Top EXCEPT !.blend_mode = m], Len(output)) # pass

\* the blend of two opaque primary colours, or of a colour and nothing
BlendFunction(blend_mode, src, dst) ==
    CASE blend_mode \in {"Normal", "Layer"} -> PREMULTIPLIED_ALPHA_BLENDING(src, dst)
      [] blend_mode = "Multiply" ->
             IF src = Transparent THEN dst
             ELSE IF src = dst THEN src ELSE "black"

(***************************************************************************)
(* C10: a list of one Blend command on a target that holds content.  When  *)
(* the frame has run, every pixel outside the region the nested list drew  *)
(* has the colour the destination snapshot holds for it, and every pixel   *)
(* inside has the blend, by the command's mode, of the nested colour and   *)
(* the snapshot's colour.                                                  *)
(***************************************************************************)
C10_SingleBlendKeepsSurroundings ==
    (/\ phase = "done"
     /\ Len(commands) = 1
     /\ IsBlend(commands[1])
     /\ commands[1].blend_mode \in {"Normal", "Layer", "Multiply"}
     /\ MaskFree(commands))
        => LET nested == Composited(commands[1].commands, ClearTexture)
               snapshot == textures[RootTarget.blend_buffer]
               visible == textures[color_view(RootTarget)]
           IN  \A p \in Pixels :
                   IF nested[p] = Transparent
                   THEN visible[p] = snapshot[p]
                   ELSE visible[p] = BlendFunction(commands[1].blend_mode,
                                                   nested[p], snapshot[p])


(***************************************************************************)
(* C11: the empty command list.  Executing it opens no render pass,        *)
(* records no texture copy and takes nothing from the pool: the one        *)
(* command buffer it pushes is empty, so no step of the run, recording or  *)
(* queue, changes a pixel, a stencil value or the pool, and the mask state *)
(* stays NoMask with counter 0.                                            *)
(***************************************************************************)
C11_EmptyListRecordsNothing ==
    commands = <<>> =>
        /\ \A i \in 1..Len(output) : output[i] = <<>>
        /\ \A i \in 1..Len(stack) :
              /\ stack[i].draw_encoder = <<>>
              /\ CurrentNumMasks(stack[i]) = 0
              /\ CurrentMaskState(stack[i]) = "NoMask"
        /\ Len(stack) <= 1
        /\ ~gpu.pass.open
        /\ phase = "done" => Len(output) = 1

C11_EmptyListChangesNothing ==
    commands = <<>> =>
        /\ textures' = textures
        /\ stencil' = stencil
        /\ texture_buffers' = texture_buffers

C11_EmptyList ==
    /\ []C11_EmptyListRecordsNothing
    /\ [][C11_EmptyListChangesNothing]_vars

C11_Witness ==
    /\ commands = <<>>
    /\ phase = "done"
    /\ output = << <<>> >>
    /\ textures[color_view(RootTarget)] = [p \in Pixels |-> "blue"]


(***************************************************************************)
(* C12: the caches of Descriptors.  Whatever requests came before, a       *)
(* finished request for a key has the object the first finished request    *)
(* for that key of that cache was answered with; two different keys, and   *)
(* the same format in two different caches, never have the same object;    *)
(* and no step takes an entry out of a cache or puts another object in its *)
(* place.                                                                  *)
(***************************************************************************)
C12_SameKeySameObject ==
    /\ \A c \in Contexts :
          contexts[c].pc = "returned" =>
              /\ <<contexts[c].request.function, contexts[c].request.key>>
                     \in DOMAIN answers
              /\ contexts[c].result =
                     answers[<<contexts[c].request.function, contexts[c].request.key>>]
    /\ \A k1, k2 \in DOMAIN answers : k1 # k2 => answers[k1] # answers[k2]

C12_NeverEvicted ==
    \A f \in Caches :
        \A k \in DOMAIN descriptors[f] :
            /\ k \in DOMAIN descriptors'[f]
            /\ descriptors'[f][k] = descriptors[f][k]

C12_PipelineCache ==
    /\ []C12_SameKeySameObject
    /\ [][C12_NeverEvicted]_vars

C12_Witness ==
    /\ RequestsMade(NumContexts) = 3
    /\ \A c \in Contexts : contexts[c].pc = "returned"
    /\ contexts[1].request = PipelinesRequest(4, "Rgba8Unorm")
    /\ contexts[2].request = contexts[1].request
    /\ contexts[2].result = contexts[1].result
    /\ <<"pipelines", <<1, "Rgba8Unorm">> >> \in DOMAIN answers

\* the handler operation of each command
OperationOf ==
    [RenderBitmap |-> "render_bitmap", RenderShape |-> "render_shape",
     DrawRect |-> "draw_rect", PushMask |-> "push_mask",
     ActivateMask |-> "activate_mask", DeactivateMask |-> "deactivate_mask",
     PopMask |-> "pop_mask", Blend |-> "blend"]

\* the call is the one operation of the command, with the command's arguments
CallOf(call, command) ==
    /\ call.operation = OperationOf[command.op]
    /\ command.op = "RenderBitmap" =>
           call.args = <<command.bitmap, command.px, command.smoothing>>
    /\ command.op = "RenderShape" => call.args = <<command.shape>>
    /\ command.op = "DrawRect" => call.args = <<command.color, command.px>>
    /\ IsMaskCommand(command) => call.args = <<>>
    /\ command.op = "Blend" => call.args = <<command.commands, command.blend_mode>>

(***************************************************************************)
(* C13: CommandList::execute.  When k commands of the list have been taken *)
(* up, exactly k handler calls have been made and the j-th call is the one *)
(* operation of the j-th command with that command's arguments; a Blend    *)
(* command is one blend call with its whole nested list and its mode.  On  *)
(* a handler that is a CommandList the calls build the list again.         *)
(***************************************************************************)
C13_OneCallPerCommand ==
    dispatch.pc # "off" =>
        LET k == Len(dispatch.list) - Len(dispatch.rest)
        IN  /\ Len(dispatch.calls) = k
            /\ \A j \in 1..k : CallOf(dispatch.calls[j], dispatch.list[j])
            /\ dispatch.handler = SubSeq(dispatch.list, 1, k)
            /\ dispatch.pc = "returned" => k = Len(dispatch.list)

C13_Witness ==
    /\ dispatch.pc = "returned"
    /\ Len(dispatch.calls) = 3
    /\ dispatch.calls[1].operation = "draw_rect"
    /\ dispatch.calls[2] =
           HandlerCall("blend", <<<<Blend(<<Red>>, "Layer")>>, "Screen">>)
    /\ dispatch.calls[3].operation = "pop_mask"


\* the stencil references recorded so far on the open pass of a renderer
References(renderer) ==
    {renderer.render_pass[k].reference :
        k \in {j \in 1..Len(renderer.render_pass) :
                  renderer.render_pass[j].op = "set_stencil_reference"}}

(***************************************************************************)
(* C14: in a build without debug assertions no list of mask commands stops *)
(* execution and the counter is clamped: PopMask at 0 leaves 0, PushMask   *)
(* at u32::MAX leaves u32::MAX, no stencil reference is counter - 1 of a   *)
(* counter that is 0, and the counter never wraps (in the two's complement *)
(* the counter is held in, a wrapped counter or reference is negative).    *)
(***************************************************************************)
C14_NeverWraps ==
    ~debug_assertions =>
        /\ phase # "panic"
        /\ \A i \in 1..Len(stack) :
              /\ stack[i].num_masks >= 0
              /\ stack[i].renderer.num_masks >= 0
              /\ \A reference \in References(stack[i].renderer) : reference >= 0

C14_ClampedAtBoundaries ==
    [][(CommandStep /\ ~debug_assertions) =>
          LET op == Head(Top.chunk).op
              before == Top.renderer
              after == stack'[Len(stack')].renderer
          IN  /\ (op = "PopMask" /\ before.num_masks = 0) => after.num_masks = 0
              /\ (op = "PushMask" /\ IsU32Max(before.num_masks))
                     => after.num_masks = before.num_masks]_vars

C14_ReleaseClamps == []C14_NeverWraps /\ C14_ClampedAtBoundaries


\* the command loop of the open Draw chunk stands at a mask command whose
\* row of the transition table does not allow it
OutsideTable ==
    /\ phase = "record"
    /\ Top.pc = "draw"
    /\ Top.chunk # <<>>
    /\ IsMaskCommand(Head(Top.chunk))
    /\ ~TablePrecondition(Head(Top.chunk).op, Top.renderer.mask_state,
                          Top.renderer.num_masks)

(***************************************************************************)
(* C15: in a build with debug assertions a mask command issued outside its *)
(* table row (PushMask in DrawMaskStencil or ClearMaskStencil, the other   *)
(* three in a state that is not theirs or with the counter 0) is fatal:    *)
(* the step that takes the command up ends in a panic, with the counter,   *)
(* the state and the calls recorded on the pass as they were, and nothing  *)
(* is executed after it.                                                   *)
(***************************************************************************)
C15_DebugAssertIsFatal ==
    [][/\ (debug_assertions /\ OutsideTable) =>
              /\ phase' = "panic"
              /\ Len(stack') = Len(stack)
              /\ stack'[Len(stack')].renderer.num_masks = Top.renderer.num_masks
              /\ stack'[Len(stack')].renderer.mask_state = Top.renderer.mask_state
              /\ stack'[Len(stack')].renderer.render_pass = Top.renderer.render_pass
              /\ stack'[Len(stack')].renderer.panicked = "debug_assert"
       /\ phase = "panic" => (phase' = "panic" /\ stack' = stack /\ output' = output)
      ]_vars

C15_Witness ==
    /\ debug_assertions
    /\ phase = "panic"
    /\ Top.renderer.panicked = "debug_assert"
    /\ Head(Top.chunk).op = "PopMask"
    /\ Top.renderer.mask_state = "DrawMaskedContent"
    /\ Top.renderer.num_masks = 1


\* the blend modes a finished call of blend_buffer was made with
ModesAnswered ==
    {m \in BlendMode : <<"blend_buffer", <<m>>>> \in DOMAIN answers}

BufferAnswered(m) == answers[<<"blend_buffer", <<m>>>>]

\* what the claim says of every call: no call of blend_buffer stops at an
\* index out of the array, and what it returns is an element of the array
\* Descriptors::new made, which is still the array it made
FixedArrayInRange ==
    /\ descriptors.blend_buffers = DescriptorsNew.blend_buffers
    /\ \A c \in Contexts : contexts[c].pc # "panic"
    /\ \A m \in BlendMode : IndexInRange(BlendIndex(m))
    /\ \A m \in ModesAnswered :
          /\ BufferAnswered(m) \in Range(descriptors.blend_buffers)
          /\ BufferAnswered(m) = blend_buffer(descriptors, m)
    /\ \A i, j \in 1..Len(descriptors.blend_buffers) :
          i # j => descriptors.blend_buffers[i] # descriptors.blend_buffers[j]

(***************************************************************************)
(* C16, as stated: the blend buffers are created once in Descriptors::new  *)
(* and never recreated; for each of the 14 blend modes blend_buffer        *)
(* returns an element of that array at an index in range, and two          *)
(* different blend modes never receive the same buffer.                    *)
(***************************************************************************)
C16_OneBufferPerMode ==
    /\ FixedArrayInRange
    /\ \A m1, m2 \in ModesAnswered :
          m1 # m2 => BufferAnswered(m1) # BufferAnswered(m2)

(***************************************************************************)
(* C16, amended: the array holds MAX_BLEND_MODES = 13 buffers, created     *)
(* once in Descriptors::new and never recreated; for each of the 14 blend  *)
(* modes blend_buffer returns an element of that array at an index in      *)
(* range; Normal and Layer receive the same buffer (index 0), and every    *)
(* other pair of different blend modes receives different buffers.         *)
(***************************************************************************)
C16_NormalAndLayerShare ==
    /\ FixedArrayInRange
    /\ Len(descriptors.blend_buffers) = MAX_BLEND_MODES
    /\ \A m1, m2 \in ModesAnswered :
          (BufferAnswered(m1) = BufferAnswered(m2))
              <=> (m1 = m2 \/ {m1, m2} = {"Normal", "Layer"})

C16_Witness ==
    /\ {"Normal", "Layer", "HardLight"} \subseteq ModesAnswered
    /\ BufferAnswered("Normal") = BufferAnswered("Layer")
    /\ BufferAnswered("HardLight") = descriptors.blend_buffers[MAX_BLEND_MODES]
    /\ contexts[1].pc = "returned"


\* the stencil reference a pass has after the calls: that of the last
\* set_stencil_reference, none when there is no such call
RECURSIVE LastReference(_)
LastReference(calls) ==
    IF calls = <<>> THEN <<>>
    ELSE IF calls[Len(calls)].op = "set_stencil_reference"
    THEN <<calls[Len(calls)].reference>>
    ELSE LastReference(SubSeq(calls, 1, Len(calls) - 1))

\* the reference the mask state asks for: counter - 1 (of a u32) in
\* DrawMaskStencil, counter in DrawMaskedContent and ClearMaskStencil
ExpectedReference(mask_state, num_masks) ==
    IF mask_state = "DrawMaskStencil" THEN SubOne(num_masks) ELSE num_masks

(***************************************************************************)
(* C17: at every draw_indexed that RenderBitmap, RenderShape or DrawRect   *)
(* records in a Draw chunk while the state is not NoMask, the stencil      *)
(* reference set last on the open render pass is counter - 1 when the      *)
(* state is DrawMaskStencil and counter when it is DrawMaskedContent or    *)
(* ClearMaskStencil; the draw is recorded with the pipeline of that state. *)
(* The first draw of a pass opened after a chunk boundary is no exception: *)
(* the pass is new, the state is the one taken over from the pass before.  *)
(***************************************************************************)
C17_ReferenceAtEveryDraw ==
    [][(CommandStep /\ IsDraw(Head(Top.chunk))) =>
          LET before == Top.renderer
              after == stack'[Len(stack')].renderer.render_pass
          IN  \A k \in (Len(before.render_pass) + 1)..Len(after) :
                  after[k].op = "draw_indexed" =>
                      /\ after[k].pipeline.mask_state = before.mask_state
                      /\ before.mask_state # "NoMask" =>
                             LastReference(SubSeq(after, 1, k - 1))
                                 = <<ExpectedReference(before.mask_state,
                                                       before.num_masks)>>]_vars

\* the first draw of the pass opened after a Blend chunk, in DrawMaskStencil
\* of the first level: the reference is 0
C17_Witness ==
    /\ phase = "record"
    /\ Len(stack) = 1
    /\ Top.pc = "draw"
    /\ ~Top.first
    /\ HasOp(Processed(Top), "Blend")
    /\ Top.renderer.mask_state = "DrawMaskStencil"
    /\ Top.renderer.num_masks = 1
    /\ Len(Top.renderer.render_pass) = 2
    /\ Top.renderer.render_pass[1] = set_stencil_reference(0)
    /\ Top.renderer.render_pass[2].op = "draw_indexed"


\* a list of mask commands and draws, no Blend command
MaskOnly(list) == \A i \in 1..Len(list) : IsMaskCommand(list[i]) \/ IsDraw(list[i])

Prefix(list, k) == SubSeq(list, 1, k)

\* the calls a command of a list of mask commands and draws records on the
\* render pass when it is taken up in `state`
CallsRecorded(command, state) ==
    LET mesh == Meshes[command.shape + 1]
    IN  (IF state # "NoMask" THEN 1 ELSE 0)
        + (IF command.op = "RenderShape"
           THEN Cardinality({i \in 1..Len(mesh) : NumIndices(state, mesh[i]) # 0})
           ELSE 1)

\* A list of mask commands and draws read by the transition table, place by
\* place: entry k + 1 describes the list after its first k commands.
\*   state   the state of the table
\*   levels  per open level, outermost first, the pixels the mask draws of
\*           the level cover
\*   calls   the calls recorded on the render pass
\*   table   every mask command so far was issued under its precondition
RECURSIVE Trace(_)
Trace(list) ==
    IF list = <<>>
    THEN <<[state |-> "NoMask", levels |-> <<>>, calls |-> 0, table |-> TRUE]>>
    ELSE LET before == Trace(Prefix(list, Len(list) - 1))
             at == before[Len(before)]
             last == list[Len(list)]
         IN  Append(before,
                 [state |->
                      CASE last.op = "PushMask" -> "DrawMaskStencil"
                        [] last.op = "ActivateMask" -> "DrawMaskedContent"
                        [] last.op = "DeactivateMask" -> "ClearMaskStencil"
                        [] last.op = "PopMask" ->
                               IF Len(at.levels) > 1 THEN "DrawMaskedContent"
                               ELSE "NoMask"
                        [] OTHER -> at.state,
                  levels |->
                      CASE last.op = "PushMask" -> Append(at.levels, {})
                        [] last.op = "PopMask" /\ at.levels # <<>> ->
                               SubSeq(at.levels, 1, Len(at.levels) - 1)
                        [] IsDraw(last) /\ at.state = "DrawMaskStencil" ->
                               [at.levels EXCEPT ![Len(at.levels)] =
                                                     @ \cup MaskCoverage(<<last>>)]
                        [] OTHER -> at.levels,
                  calls |-> at.calls + CallsRecorded(last, at.state),
                  table |-> at.table /\ TablePrecondition(last.op, at.state,
                                                          Len(at.levels))])

\* the PushMask that the PopMask at place k matches
MatchingPush(trace, list, k) ==
    LET pushes == {j \in 1..(k - 1) :
                      /\ list[j].op = "PushMask"
                      /\ Len(trace[j].levels) = Len(trace[k + 1].levels)}
    IN  CHOOSE j \in pushes : \A i \in pushes : i <= j

\* the draws of the marking phase that starts at the PushMask at place j, and
\* those of the clearing phase that ends at the PopMask at place k
MarkingDraws(list, j) ==
    LET a == CHOOSE a \in j..Len(list) :
                 /\ list[a].op = "ActivateMask"
                 /\ \A i \in j..(a - 1) : list[i].op # "ActivateMask"
    IN  SubSeq(list, j + 1, a - 1)
ClearingDraws(list, k) ==
    LET d == CHOOSE d \in 1..k :
                 /\ list[d].op = "DeactivateMask"
                 /\ \A i \in (d + 1)..k : list[i].op # "DeactivateMask"
    IN  SubSeq(list, d + 1, k - 1)

\* well-formed nesting of masks in which the clearing phase of each level
\* draws the mask geometry of that level again
NestedMasks(trace, list) ==
    /\ trace[Len(trace)].table
    /\ trace[Len(trace)].levels = <<>>
    /\ \A k \in 1..Len(list) :
          list[k].op = "PopMask" =>
              ClearingDraws(list, k) = MarkingDraws(list, MatchingPush(trace, list, k))

\* the pixels all the levels cover
Clip(levels) == {p \in Pixels : \A i \in 1..Len(levels) : p \in levels[i]}

\* per pixel, how many of the levels, counted from the outermost, cover it
\* without a gap
NestStencil(levels) ==
    [p \in Pixels |->
        Cardinality({j \in 1..Len(levels) : \A i \in 1..j : p \in levels[i]})]

\* the queue, in the one command buffer of a list of mask commands and
\* draws, stands between the commands of the list
QueueInMaskOnly ==
    /\ phase = "submit"
    /\ gpu.buffer = 1
    /\ MaskOnly(commands)

(***************************************************************************)
(* C18: well-formed mask nesting, to the depth MaxMaskDepth of the lists   *)
(* the model runs, in a list of mask commands and draws whose clearing     *)
(* phases draw the mask geometry of their level again, on a stencil that   *)
(* is 0 everywhere (a depth the 8 bits of the stencil cannot count, 256    *)
(* and more, is not among them).  Whenever the queue has run               *)
(* such a list up to a place where the state is NoMask or                  *)
(* DrawMaskedContent, the stencil of a pixel is the number of open levels, *)
(* from the outermost, that cover it without a gap; so after each PopMask  *)
(* the stencil of every pixel is what it was before the matching PushMask. *)
(* A draw of the content at depth N changes a colour only at the pixels    *)
(* the mask geometry of all N open levels covers.                          *)
(***************************************************************************)
C18_StencilCountsLevels ==
    QueueInMaskOnly =>
        LET trace == Trace(commands)
        IN  \A k \in 0..Len(commands) :
                (/\ gpu.ip = 2 + trace[k + 1].calls
                 /\ trace[k + 1].state \in {"NoMask", "DrawMaskedContent"}
                 /\ NestedMasks(trace, commands))
                => /\ stencil = NestStencil(trace[k + 1].levels)
                   /\ (k > 0 /\ commands[k].op = "PopMask") =>
                          stencil = NestStencil(
                              trace[MatchingPush(trace, commands, k)].levels)

C18_ContentClipped ==
    (/\ GpuAt("draw_indexed")
     /\ gpu.buffer = 1
     /\ GpuOp.pipeline.mask_state = "DrawMaskedContent"
     /\ gpu'.ip = gpu.ip + 1
     /\ MaskOnly(commands)
     /\ NestedMasks(Trace(commands), commands))
        => LET trace == Trace(commands)
           IN  \E k \in 1..Len(commands) :
                   /\ gpu.ip >= 2 + trace[k].calls
                   /\ gpu.ip < 2 + trace[k + 1].calls
                   /\ trace[k].levels # <<>>
                   /\ \A t \in DOMAIN textures : \A p \in Pixels :
                         textures'[t][p] # textures[t][p]
                             => p \in Clip(trace[k].levels)

CopiesIn(encoder) ==
    {i \in 1..Len(encoder) : encoder[i].op = "copy_texture_to_texture"}
CompositesIn(encoder) ==
    {i \in 1..Len(encoder) :
        encoder[i].op = "draw_indexed" /\ encoder[i].src.kind = "texture"}

\* the pass that starts at place i of an encoder is one composite pass: its
\* begin, the stencil reference if the mask state sets one, the quad of 6
\* indices sampling a texture, its end
CompositePassAt(encoder, i) ==
    LET d == IF Len(encoder) > i /\ encoder[i + 1].op = "set_stencil_reference"
             THEN i + 2 ELSE i + 1
    IN  /\ Len(encoder) > d
        /\ encoder[i].op = "begin_render_pass"
        /\ d \in CompositesIn(encoder)
        /\ encoder[d].num_indices = 6
        /\ encoder[d].px = Pixels
        /\ encoder[d + 1] = end_render_pass

\* the textures of a target, and those the pool holds to hand out
TexturesOf(target) ==
    {target.frame_buffer, target.blend_buffer, target.resolve_buffer} \ {None}
PoolFree(tb) ==
    Range(tb.frame_buffers) \cup Range(tb.resolve_buffers) \cup Range(tb.blend_buffers)

NumBlends(list) == Len(SelectSeq(list, IsBlend))

\* the protocol of the Blend chunks as the encoder of an activation shows
\* it: one snapshot per Blend command taken up, each followed at once by the
\* composite pass of its chunk, but for the chunk whose nested list is
\* still being executed
BlendProtocolRecorded(f) ==
    LET encoder == f.draw_encoder
        open == IF f.pc = "blend" THEN 1 ELSE 0
    IN  /\ Cardinality(CopiesIn(encoder)) = NumBlends(Processed(f))
        /\ Cardinality(CompositesIn(encoder)) = NumBlends(Processed(f)) - open
        /\ \A i \in CopiesIn(encoder) :
              /\ encoder[i] = update_blend_buffer(f.target)
              /\ IF i = Len(encoder) THEN f.pc = "blend"
                 ELSE CompositePassAt(encoder, i + 1)
        /\ f.pc = "blend" => (encoder # <<>> /\ Len(encoder) \in CopiesIn(encoder))

\* the fresh target of the Blend chunk an activation is in: taken from the
\* pool, held by nobody else, and the target of the nested execute
FreshTargetHeld(i) ==
    LET f == stack[i]
    IN  IF f.pc # "blend" THEN f.child = NoTarget /\ i = Len(stack)
        ELSE /\ f.child.frame_buffer # None /\ f.child.blend_buffer # None
             /\ (f.child.resolve_buffer # None) = msaa
             /\ Cardinality(TexturesOf(f.child)) = IF msaa THEN 3 ELSE 2
             /\ TexturesOf(f.child) \cap PoolFree(texture_buffers) = {}
             /\ \A j \in 1..Len(stack) :
                   /\ TexturesOf(f.child) \cap TexturesOf(stack[j].target) # {}
                          => j = i + 1
                   /\ (j # i) => TexturesOf(f.child) \cap TexturesOf(stack[j].child) = {}
             /\ i < Len(stack) => /\ stack[i + 1].target = f.child
                                  /\ Blend(stack[i + 1].commands, f.blend_mode)
                                         = f.commands[ProcessedCount(f)]

C19_ProtocolRecorded ==
    phase = "record" =>
        \A i \in 1..Len(stack) :
            /\ BlendProtocolRecorded(stack[i])
            /\ FreshTargetHeld(i)

\* the encoder that was pushed to output last is the whole execution of the
\* nested list on the target: every pass of it renders to that target
ExecutedOn(encoder, target, list) ==
    /\ \A k \in 1..Len(encoder) :
          /\ encoder[k].op = "begin_render_pass"
                 => encoder[k].color.view = target.frame_buffer
          /\ encoder[k].op = "copy_texture_to_texture"
                 => encoder[k] = update_blend_buffer(target)
    /\ Cardinality(CopiesIn(encoder)) = NumBlends(list)
    /\ Cardinality(CompositesIn(encoder)) = NumBlends(list)

\* The steps of the protocol.  Entering a Blend chunk records the snapshot
\* at the end of what the parent has recorded so far and starts the nested
\* execute; nothing of an activation changes while an execute it started
\* runs; the composite pass is recorded when the nested execute has
\* returned and pushed its encoder, and with it the fresh buffers go back
\* to the pool; what is recorded on an encoder stays as it is.
C19_ProtocolStep ==
    (phase = "record" /\ stack # <<>> /\ stack' # <<>>) =>
        /\ \A i \in 1..(Len(stack) - 1) :
              i <= Len(stack') => stack'[i] = stack[i]
        /\ Len(stack') = Len(stack) + 1 =>
              /\ stack'[Len(stack)].draw_encoder
                     = Append(Top.draw_encoder, update_blend_buffer(Top.target))
              /\ stack'[Len(stack)].pc = "blend"
              /\ stack'[Len(stack')].draw_encoder = <<>>
              /\ TexturesOf(stack'[Len(stack)].child) \cap PoolFree(texture_buffers') = {}
              /\ output' = output
        /\ (Len(stack') = Len(stack) /\ Top.pc = "blend" /\ phase' = "record") =>
              LET after == stack'[Len(stack')]
                  encoder == after.draw_encoder
              IN  /\ after.pc = "loop"
                  /\ SubSeq(encoder, 1, Len(Top.draw_encoder)) = Top.draw_encoder
                  /\ CompositePassAt(encoder, Len(Top.draw_encoder) + 1)
                  /\ encoder[Len(encoder) - 1].src.view = color_view(Top.child)
                  /\ encoder[Len(Top.draw_encoder) + 1].color.view
                         = Top.target.frame_buffer
                  /\ output # <<>>
                  /\ ExecutedOn(output[Len(output)], Top.child,
                                Top.commands[ProcessedCount(Top)].commands)
                  /\ encoder[Len(encoder) - 1].src.produced_by = Len(output)
                  /\ TexturesOf(Top.child) \subseteq PoolFree(texture_buffers')
                  /\ output' = output
        /\ Len(stack') = Len(stack) =>
              /\ Len(stack'[Len(stack)].draw_encoder) >= Len(Top.draw_encoder)
              /\ SubSeq(stack'[Len(stack)].draw_encoder, 1, Len(Top.draw_encoder))
                     = Top.draw_encoder

\* the textures that are the blend-source buffer of a target
SnapshotTextures ==
    UNION {{output[b][i].dst : i \in CopiesIn(output[b])} : b \in 1..Len(output)}

\* On the queue a snapshot texture is written by its copy only, and the
\* copy gives it the colour the parent holds at that place of its command
\* buffer: that of the calls before the copy, none of those after it.
C19_SnapshotOnQueue ==
    phase = "submit" =>
        /\ \A t \in SnapshotTextures :
              textures'[t] # textures[t] =>
                  /\ GpuAt("copy_texture_to_texture")
                  /\ GpuOp.dst = t
        /\ (GpuAt("copy_texture_to_texture") /\ gpu'.ip = gpu.ip + 1) =>
              /\ ~gpu.pass.open
              /\ textures'[GpuOp.dst] = textures[GpuOp.src]
              /\ textures'[GpuOp.src] = textures[GpuOp.src]

(***************************************************************************)
(* C19: for every Blend chunk the steps of the protocol are recorded in    *)
(* this order, each once: (a) the copy of the parent's colour (its resolve *)
(* buffer when there is one, else its frame buffer) into the parent's      *)
(* blend-source buffer, (b) the taking of a frame, a resolve (when         *)
(* multisampled) and a blend buffer from the pool, held by no other        *)
(* target, (c) the whole recursive execute of the nested list on that      *)
(* target, (d) one composite pass on the parent that draws a quad of 6     *)
(* indices, (e) the return of the buffers to the pool.  On the queue the   *)
(* snapshot is the parent's colour as the calls recorded before the Blend  *)
(* left it, and no later call changes it before the next snapshot.         *)
(***************************************************************************)
C19_BlendProtocol ==
    /\ []C19_ProtocolRecorded
    /\ [][C19_ProtocolStep]_vars
    /\ [][C19_SnapshotOnQueue]_vars

\* the queue has run the snapshot of a Blend that follows a draw: the
\* blend-source buffer of the root holds what the draw left
C19_Witness ==
    /\ phase = "submit"
    /\ msaa
    /\ gpu.buffer = Len(output)
    /\ gpu.ip > 1
    /\ gpu.ip <= Len(output[gpu.buffer])
    /\ output[gpu.buffer][gpu.ip - 1] = update_blend_buffer(RootTarget)
    /\ textures[RootTarget.blend_buffer] = [p \in Pixels |-> "green"]
    /\ Len(output) >= 3


\* An encoder read call by call: "closed" when no render pass is open,
\* "open" when one is, "broken" once a pass was begun inside a pass, ended
\* without being open, a call of a pass was made outside a pass, or a
\* texture was copied inside one.
PassAfter(state, call) ==
    CASE state = "broken" -> "broken"
      [] call.op = "begin_render_pass" ->
             IF state = "closed" THEN "open" ELSE "broken"
      [] call.op = "end_render_pass" ->
             IF state = "open" THEN "closed" ELSE "broken"
      [] call.op = "copy_texture_to_texture" ->
             IF state = "closed" THEN "closed" ELSE "broken"
      [] OTHER -> IF state = "open" THEN "open" ELSE "broken"

RECURSIVE PassState(_, _)
PassState(state, encoder) ==
    IF encoder = <<>> THEN state
    ELSE PassState(PassAfter(state, Head(encoder)), Tail(encoder))

PassesBegun(encoder) ==
    Cardinality({i \in 1..Len(encoder) : encoder[i].op = "begin_render_pass"})

\* the Draw chunks of its list an activation has taken up
DrawChunksTaken(f) ==
    LET chunks == chunk_blends(f.commands)
    IN  Cardinality({k \in 1..(Len(chunks) - Len(f.chunks)) :
                        chunks[k].kind = "Draw"})

(***************************************************************************)
(* C20: render-pass discipline.  On the encoder of every activation and on *)
(* every command buffer of output the passes are begun and ended in turn,  *)
(* at most one is open, and the texture copies are outside of them; a pass *)
(* is open exactly while the activation is in a Draw chunk, whose calls    *)
(* are all calls of that pass; an activation has begun one pass per Draw   *)
(* chunk it has taken up and one composite pass per Blend chunk it is      *)
(* through with; while the nested list of a Blend chunk is executed, and   *)
(* when the snapshot is copied, no pass is open on the parent's encoder.   *)
(* The queue finds the same: it begins no pass inside a pass and copies no *)
(* texture inside one.                                                     *)
(***************************************************************************)
C20_RenderPassDiscipline ==
    /\ phase = "record" =>
          \A i \in 1..Len(stack) :
              LET f == stack[i]
              IN  /\ PassState("closed", f.draw_encoder)
                         = IF f.pc = "draw" THEN "open" ELSE "closed"
                  /\ (i < Len(stack)) => f.pc = "blend"
                  /\ f.pc = "draw" =>
                         /\ PassState("open", f.renderer.render_pass) = "open"
                         /\ PassesBegun(f.renderer.render_pass) = 0
                  /\ PassesBegun(f.draw_encoder)
                         = DrawChunksTaken(f) + Cardinality(CompositesIn(f.draw_encoder))
                  /\ Cardinality(CompositesIn(f.draw_encoder))
                         = NumBlends(Processed(f)) - (IF f.pc = "blend" THEN 1 ELSE 0)
    /\ \A b \in 1..Len(output) : PassState("closed", output[b]) = "closed"
    /\ (phase = "submit" /\ gpu.buffer <= Len(output)) =>
          /\ gpu.pass.open
                 = (PassState("closed", SubSeq(output[gpu.buffer], 1, gpu.ip - 1))
                        = "open")
          /\ GpuAt("begin_render_pass") => ~gpu.pass.open
          /\ GpuAt("copy_texture_to_texture") => ~gpu.pass.open
          /\ GpuAt("draw_indexed") => gpu.pass.open
          /\ gpu.ip > Len(output[gpu.buffer]) => ~gpu.pass.open

\* the Draw chunk after a Blend chunk is open on the root's encoder; the
\* pass of the Draw chunk before the Blend chunk and the composite pass are
\* closed before it
C20_Witness ==
    /\ phase = "record"
    /\ Len(stack) = 1
    /\ Top.pc = "draw"
    /\ Top.renderer.render_pass # <<>>
    /\ PassesBegun(Top.draw_encoder) = 3
    /\ Cardinality(CopiesIn(Top.draw_encoder)) = 1
    /\ Len(output) = 1


\* the activations above the first whose Blend command has the mode Layer
LayersUpTo(i) == {j \in 2..i : stack[j - 1].blend_mode = "Layer"}

\* the target of the innermost Layer blend that encloses activation i, or
\* what the top-level caller passed when no enclosing blend is a Layer
InnermostLayer(i) ==
    IF LayersUpTo(i) = {} THEN stack[1].nearest_layer
    ELSE stack[CHOOSE j \in LayersUpTo(i) : \A k \in LayersUpTo(i) : k <= j].target

(***************************************************************************)
(* C21: at every recursion depth the nearest_layer passed to the execute   *)
(* of a nested list is the fresh child target when the mode of the Blend   *)
(* is Layer, and else the caller's nearest_layer unchanged; so inside any  *)
(* nesting it is the target of the innermost enclosing Layer blend, or the *)
(* value of the top-level caller when no enclosing blend is a Layer.  The  *)
(* nested list is that of the Blend command and its target the child.      *)
(***************************************************************************)
C21_NearestLayer ==
    phase = "record" =>
        \A i \in 2..Len(stack) :
            /\ stack[i - 1].pc = "blend"
            /\ stack[i].target = stack[i - 1].child
            /\ stack[i].nearest_layer =
                   IF stack[i - 1].blend_mode = "Layer" THEN stack[i - 1].child
                   ELSE stack[i - 1].nearest_layer
            /\ stack[i].nearest_layer = InnermostLayer(i)
            /\ stack[i - 1].blend_mode
                   = stack[i - 1].commands[ProcessedCount(stack[i - 1])].blend_mode

\* a Normal blend inside a Layer blend: the innermost list is executed with
\* the target of the Layer blend as nearest_layer, which is neither its own
\* target nor the root
C21_Witness ==
    /\ phase = "record"
    /\ Len(stack) = 3
    /\ stack[1].blend_mode = "Layer"
    /\ stack[2].blend_mode = "Normal"
    /\ stack[3].nearest_layer = stack[2].target
    /\ stack[3].nearest_layer # stack[3].target
    /\ stack[3].nearest_layer # RootTarget
    /\ stack[3].pc = "draw"


\* the textures the pool has created, and those of them that are taken and
\* not returned
PoolCreated(tb) == 4..(tb.next - 1)
PoolTaken(tb) == PoolCreated(tb) \ PoolFree(tb)

\* the textures of one bundle: frame and blend buffer, and a resolve buffer
\* when the targets are multisampled
BundleSize == IF msaa THEN 3 ELSE 2

\* the Blend chunks that are being executed: the blend nesting depth
BlendsOpen == {i \in 1..Len(stack) : stack[i].pc = "blend"}

\* how deep the Blend commands of a list are nested
RECURSIVE BlendNesting(_)
BlendNesting(list) ==
    IF list = <<>> THEN 0
    ELSE LET rest == BlendNesting(Tail(list))
             here == IF IsBlend(Head(list))
                     THEN 1 + BlendNesting(Head(list).commands) ELSE 0
         IN  IF here > rest THEN here ELSE rest

(***************************************************************************)
(* C22: every bundle (frame, resolve and blend buffer) taken from the pool *)
(* for a Blend chunk goes back to the pool when the chunk is finished.     *)
(* While execute records, the textures taken and not returned are those of *)
(* the child targets of the Blend chunks being executed, one bundle each,  *)
(* so their number is at most the blend nesting depth; after execute has   *)
(* returned none is taken; and the pool never holds more bundles than the  *)
(* Blend commands of the list are deep, however many there are.            *)
(***************************************************************************)
C22_BundlesReturned ==
    /\ phase = "record" =>
          /\ PoolTaken(texture_buffers)
                 = UNION {TexturesOf(stack[i].child) : i \in BlendsOpen}
          /\ Cardinality(PoolTaken(texture_buffers))
                 = BundleSize * Cardinality(BlendsOpen)
          /\ Cardinality(BlendsOpen) <= Len(stack)
          /\ Cardinality(BlendsOpen) >= Len(stack) - 1
          /\ Cardinality(BlendsOpen) <= BlendNesting(commands)
    /\ phase \in {"idle", "submit", "done"} => PoolTaken(texture_buffers) = {}
    /\ phase # "panic" =>
          Cardinality(PoolCreated(texture_buffers))
              <= BundleSize * BlendNesting(commands)

\* the second of two sibling Blend chunks is being executed on the bundle
\* the first one returned: one bundle created, one taken
C22_Witness ==
    /\ phase = "record"
    /\ Len(stack) = 2
    /\ NumBlends(Processed(stack[1])) = 2
    /\ Cardinality(PoolCreated(texture_buffers)) = BundleSize
    /\ PoolTaken(texture_buffers) = TexturesOf(stack[1].child)
    /\ msaa


\* the colour textures a recorded call reads or writes
Touched(call) ==
    CASE call.op = "begin_render_pass" ->
             {call.color.view, call.color.resolve_target} \ {None}
      [] call.op = "copy_texture_to_texture" -> {call.src, call.dst}
      [] call.op = "draw_indexed" -> ({call.src.view} \ {None}) \cup call.binds
      [] OTHER -> {}

\* the calls an activation has recorded: on its encoder and on the pass of
\* the Draw chunk it is in
RecordedBy(f) ==
    Range(f.draw_encoder)
    \cup (IF f.pc = "draw" THEN Range(f.renderer.render_pass) ELSE {})

\* the colour textures of the targets of activation i and of those below it
AncestryTextures(i) == UNION {TexturesOf(stack[k].target) : k \in 1..i}

(***************************************************************************)
(* C23: while a nested list is executed, the frame, resolve and blend      *)
(* buffers of its target are different textures from those of the parent   *)
(* target and of every target further down the chain of callers; the one   *)
(* surface parent and child share is the depth/stencil buffer.  No call an *)
(* activation records reads or writes a colour texture that is not of its  *)
(* own target, but for the draw of a composite pass, which samples one     *)
(* view, not of its own target nor of a caller's; while the nested list of *)
(* a Blend chunk is executed the parent's encoder ends with the snapshot,  *)
(* so the composite pass that reads the child follows the recursion.       *)
(***************************************************************************)
C23_NoAliasing ==
    phase = "record" =>
        \A i \in 1..Len(stack) :
            /\ \A j \in (i + 1)..Len(stack) :
                  /\ TexturesOf(stack[i].target) \cap TexturesOf(stack[j].target) = {}
                  /\ stack[j].target.depth = stack[i].target.depth
            /\ stack[i].pc = "blend" =>
                  /\ TexturesOf(stack[i].child) \cap AncestryTextures(i) = {}
                  /\ stack[i].child.depth = stack[i].target.depth
                  /\ stack[i].draw_encoder[Len(stack[i].draw_encoder)]
                         = update_blend_buffer(stack[i].target)
            /\ \A call \in RecordedBy(stack[i]) :
                  IF call.op = "draw_indexed" /\ call.src.kind = "texture"
                  THEN /\ Touched(call) = {call.src.view}
                       /\ call.src.view \notin AncestryTextures(i)
                       /\ call.src.view \in PoolCreated(texture_buffers)
                  ELSE Touched(call) \subseteq TexturesOf(stack[i].target)

\* a Blend chunk nested in a Blend chunk, both multisampled: three targets
\* of three textures each, and the middle one has recorded its draw
C23_Witness ==
    /\ phase = "record"
    /\ msaa
    /\ Len(stack) = 3
    /\ Cardinality(AncestryTextures(3)) = 9
    /\ stack[2].draw_encoder # <<>>
    /\ Len(stack[2].draw_encoder) >= 4
    /\ stack[3].pc = "draw"


\* the render passes an encoder begins, in order
PassesOf(encoder) ==
    SelectSeq(encoder, LAMBDA call : call.op = "begin_render_pass")

\* the k-th pass of an execute call clears nothing unless it is the first,
\* clears depth only when the caller asked for it, never clears the stencil,
\* and renders to the target of the call
LoadsAsAllowed(f, k) ==
    LET pass == PassesOf(f.draw_encoder)[k]
    IN  /\ pass.color.view = f.target.frame_buffer
        /\ pass.color.resolve_target = f.target.resolve_buffer
        /\ pass.depth_stencil.view = f.target.depth
        /\ pass.depth_stencil.stencil_load = "Load"
        /\ pass.color.load = (IF k = 1 THEN "Clear" ELSE "Load")
        /\ pass.depth_stencil.depth_load = "Clear" => (k = 1 /\ f.clear_depth)
        /\ k > 1 => pass.depth_stencil.depth_load = "Load"

(***************************************************************************)
(* C24: within one execute call on a target, only the render pass of the   *)
(* first chunk uses a clear load operation for colour or depth: every      *)
(* later pass, of a Draw chunk or a composite, loads colour and depth;     *)
(* depth is cleared only when the caller asked for it (clear_depth), and   *)
(* no pass clears the stencil.  first is true exactly until the first      *)
(* chunk is done.                                                          *)
(***************************************************************************)
C24_OnlyFirstPassClears ==
    phase = "record" =>
        \A i \in 1..Len(stack) :
            LET f == stack[i]
                n == Len(PassesOf(f.draw_encoder))
            IN  /\ \A k \in 1..n : LoadsAsAllowed(f, k)
                /\ f.first => n <= 1
                /\ ~f.first => n >= 1
                /\ f.first <=> Len(f.chunks) + (IF f.pc \in {"draw", "blend"} THEN 1 ELSE 0)
                                  = Len(chunk_blends(f.commands))

\* an execute call asked to clear depth has begun three passes, the first
\* clearing colour and depth, and a composite pass among the later ones
C24_Witness ==
    /\ phase = "record"
    /\ stack[1].clear_depth
    /\ Len(PassesOf(stack[1].draw_encoder)) = 3
    /\ PassesOf(stack[1].draw_encoder)[1].depth_stencil.depth_load = "Clear"
    /\ PassesOf(stack[1].draw_encoder)[1].color.load = "Clear"
    /\ CompositesIn(stack[1].draw_encoder) # {}


\* the contexts inside the lookup-or-insert section of Descriptors::pipelines
InPipelinesSection ==
    {c \in Contexts : contexts[c].pc = "locked"
                      /\ contexts[c].request.function = "pipelines"}

\* the contexts a call of Descriptors::pipelines has returned to
PipelinesReturned ==
    {c \in Contexts : contexts[c].pc = "returned"
                      /\ contexts[c].request.function = "pipelines"}

\* at most one context is in the section, and it is the holder of the mutex
C25_MutualExclusion ==
    /\ Cardinality(InPipelinesSection) <= 1
    /\ \A c \in Contexts :
          c \in InPipelinesSection <=> descriptors.locked["pipelines"] = c

\* callers with the same key have the same object, the one of the map
C25_SameObject ==
    /\ \A c \in PipelinesReturned :
          /\ contexts[c].request.key \in DOMAIN descriptors.pipelines
          /\ contexts[c].result = descriptors.pipelines[contexts[c].request.key]
    /\ \A c1, c2 \in PipelinesReturned :
          contexts[c1].request.key = contexts[c2].request.key
              <=> contexts[c1].result = contexts[c2].result

\* a step that changes the map is taken by the one context in the section,
\* and constructs one Pipelines, for the key of that context, which had none
C25_BuiltOnce ==
    descriptors'.pipelines # descriptors.pipelines =>
        \E c \in InPipelinesSection :
            LET key == contexts[c].request.key
            IN  /\ InPipelinesSection = {c}
                /\ key \notin DOMAIN descriptors.pipelines
                /\ DOMAIN descriptors'.pipelines
                       = DOMAIN descriptors.pipelines \cup {key}
                /\ \A k \in DOMAIN descriptors.pipelines :
                      /\ descriptors'.pipelines[k] = descriptors.pipelines[k]
                      /\ descriptors'.pipelines[k] # descriptors'.pipelines[key]
                /\ descriptors'.next_serial = descriptors.next_serial + 1
                /\ contexts'[c].pc = "returned"
                /\ contexts'[c].result = descriptors'.pipelines[key]

(***************************************************************************)
(* C25: contexts calling Descriptors::pipelines concurrently.  In every    *)
(* interleaving at most one context is between the lock and the return of  *)
(* the call (the lookup or insert), and it holds the mutex; a Pipelines    *)
(* set is constructed only for a key the map does not hold, by the context *)
(* in the section, so at most once per key (sample count, format); and     *)
(* the callers of one key have one object, callers of two keys two.        *)
(***************************************************************************)
C25_ConcurrentPipelines ==
    /\ []C25_MutualExclusion
    /\ []C25_SameObject
    /\ [][C25_BuiltOnce]_vars

\* two contexts race for one key: the first has its object and the map has
\* the entry, the second is in the section
C25_Witness ==
    /\ contexts[1].pc = "returned"
    /\ contexts[2].pc = "locked"
    /\ contexts[1].request.function = "pipelines"
    /\ contexts[2].request = contexts[1].request
    /\ contexts[1].requests = 1
    /\ contexts[2].requests = 1
    /\ DOMAIN descriptors.pipelines = {contexts[1].request.key}


\* the index count render_shape is to select for a sub-draw
SelectedCount(mask_state, draw) ==
    IF mask_state \in {"DrawMaskStencil", "ClearMaskStencil"}
    THEN draw.num_mask_indices
    ELSE draw.num_indices

\* the pipeline family of each draw type
FamilyTable == [Color |-> "color", Gradient |-> "gradient", Bitmap |-> "bitmap"]

\* the draws render_shape is to issue for a mesh: its sub-draws in mesh
\* order, those of a selected count of 0 left out
ExpectedDraws(mask_state, mesh) ==
    LET kept == SelectSeq([k \in 1..Len(mesh) |-> k],
                          LAMBDA k : SelectedCount(mask_state, mesh[k]) # 0)
    IN  [n \in 1..Len(kept) |->
            [family |-> FamilyTable[mesh[kept[n]].draw_type],
             mask_state |-> mask_state,
             num_indices |-> SelectedCount(mask_state, mesh[kept[n]])]]

\* the draw calls among the calls from place `from` of a render pass on
DrawsFrom(render_pass, from) ==
    LET calls == SelectSeq(SubSeq(render_pass, from, Len(render_pass)),
                           LAMBDA call : call.op = "draw_indexed")
    IN  [n \in 1..Len(calls) |->
            [family |-> calls[n].pipeline.family,
             mask_state |-> calls[n].pipeline.mask_state,
             num_indices |-> calls[n].num_indices]]

C26_ShapeStep ==
    (AtCommand("RenderShape") /\ phase' = "record") =>
        LET self == Top.renderer
            after == stack'[Len(stack')].renderer
            mesh == Meshes[Head(Top.chunk).shape + 1]
        IN  /\ DrawsFrom(after.render_pass, Len(self.render_pass) + 1)
                   = ExpectedDraws(self.mask_state, mesh)
            /\ after.mask_state = self.mask_state
            /\ after.num_masks = self.num_masks

(***************************************************************************)
(* C26: render_shape issues one draw call for each sub-draw of the mesh,   *)
(* in mesh order, with the mask index count (num_mask_indices) when the    *)
(* mask state is DrawMaskStencil or ClearMaskStencil and the full count    *)
(* (num_indices) when it is NoMask or DrawMaskedContent; a sub-draw whose  *)
(* selected count is 0 gets no draw call; the pipeline is of the family of *)
(* the sub-draw's type (color, gradient, bitmap) in the variant of the     *)
(* current mask state, which render_shape leaves as it is.                 *)
(***************************************************************************)
C26_RenderShape == [][C26_ShapeStep]_vars

\* shape 1 (a gradient, and a bitmap that is all stroke) and shape 0 drawn
\* in the mask states in turn: the bitmap is drawn as masked content only
C26_Witness ==
    /\ phase = "record"
    /\ Top.pc = "draw"
    /\ Top.chunk = <<>>
    /\ Len(commands) = 8
    /\ DrawsFrom(Top.renderer.render_pass, 1) =
           << [family |-> "gradient", mask_state |-> "DrawMaskStencil", num_indices |-> 6],
              [family |-> "color", mask_state |-> "DrawMaskedContent", num_indices |-> 12],
              [family |-> "gradient", mask_state |-> "DrawMaskedContent", num_indices |-> 6],
              [family |-> "bitmap", mask_state |-> "DrawMaskedContent", num_indices |-> 6],
              [family |-> "gradient", mask_state |-> "ClearMaskStencil", num_indices |-> 6] >>


\* an execute call that has taken up no chunk of its list yet
NotStarted(f) ==
    f.pc = "loop" /\ Len(f.chunks) = Len(chunk_blends(f.commands))

\* every execute call starts at NoMask with counter 0, and the first Draw
\* chunk of a call starts its renderer there
C27_StartsAtNoMask ==
    phase = "record" =>
        \A i \in 1..Len(stack) :
            /\ NotStarted(stack[i]) =>
                  stack[i].num_masks = 0 /\ stack[i].mask_state = "NoMask"
            /\ (/\ stack[i].pc = "draw"
                /\ Len(stack[i].chunks) + 1 = Len(chunk_blends(stack[i].commands))
                /\ Len(stack[i].chunk) = Len(chunk_blends(stack[i].commands)[1].commands))
                  => /\ stack[i].renderer.num_masks = 0
                     /\ stack[i].renderer.mask_state = "NoMask"

\* from the step that takes up a Blend chunk to the step that records its
\* composite pass, the counter and the mask state of the call are the same,
\* whatever the calls above it do; and the nested call begins not started
C27_ParentKept ==
    (phase = "record" /\ phase' = "record") =>
        /\ \A i \in 1..Len(stack) :
              (i < Len(stack) \/ stack[i].pc = "blend"
                 \/ (i <= Len(stack') /\ stack'[i].pc = "blend"))
                  => /\ i <= Len(stack')
                     /\ stack'[i].num_masks = stack[i].num_masks
                     /\ stack'[i].mask_state = stack[i].mask_state
        /\ Len(stack') > Len(stack) =>
              /\ Len(stack') = Len(stack) + 1
              /\ NotStarted(stack'[Len(stack')])
              /\ stack'[Len(stack')].num_masks = 0
              /\ stack'[Len(stack')].mask_state = "NoMask"

(***************************************************************************)
(* C27: the mask state is per target.  The execution of a nested list      *)
(* starts at NoMask with counter 0 whatever the state of the parent is,    *)
(* and a Blend chunk leaves num_masks and mask_state of the parent as they *)
(* were before the chunk, whatever mask commands the nested list holds.    *)
(***************************************************************************)
C27_MaskStatePerTarget ==
    /\ []C27_StartsAtNoMask
    /\ [][C27_ParentKept]_vars

\* a Blend chunk whose nested list pushes a mask and leaves it open was
\* composited inside an active mask of the parent, which is still active
C27_Witness ==
    /\ phase = "record"
    /\ Len(stack) = 1
    /\ commands = <<PushMask, ActivateMask, Blend(<<PushMask, Green>>, "Multiply")>>
    /\ CompositesIn(Top.draw_encoder) # {}
    /\ Top.mask_state = "DrawMaskedContent"
    /\ Top.num_masks = 1


\* the maximal runs of commands that are not Blend commands: a run starts
\* at a command that is none and is the first or follows a Blend command
RunStarts(list) ==
    {i \in 1..Len(list) :
        ~IsBlend(list[i]) /\ (i = 1 \/ IsBlend(list[i - 1]))}

TopLevelBlends(list) == {i \in 1..Len(list) : IsBlend(list[i])}

(***************************************************************************)
(* C28: every Draw chunk chunk_blends produces is non-empty and is a       *)
(* maximal run: no two Draw chunks are adjacent in the output (while the   *)
(* scan runs no Draw chunk is even last, a flush being followed by the     *)
(* Blend chunk that caused it), so the number of chunks returned is the    *)
(* number of top-level Blend commands plus the number of maximal runs of   *)
(* other commands, and an empty list yields no chunk.                      *)
(***************************************************************************)
C28_DrawChunksMaximal ==
    scan.pc # "off" =>
        /\ \A k \in 1..Len(scan.result) :
              scan.result[k].kind = "Draw" =>
                  /\ scan.result[k].commands # <<>>
                  /\ k > 1 => scan.result[k - 1].kind = "Blend"
        /\ (scan.pc = "scan" /\ scan.result # <<>>) =>
              scan.result[Len(scan.result)].kind = "Blend"
        /\ scan.pc = "returned" =>
              /\ Len(scan.result) = Cardinality(TopLevelBlends(scan.commands))
                                    + Cardinality(RunStarts(scan.commands))
              /\ scan.commands = <<>> => scan.result = <<>>

\* a run of two, a Blend command and a run of one: three chunks
C28_Witness ==
    /\ scan.pc = "returned"
    /\ scan.commands = <<Red, PushMask, Blend(<<>>, "Normal"), Red>>
    /\ Len(scan.result) = 3
    /\ scan.result[1] = ChunkDraw(<<Red, PushMask>>)
    /\ scan.result[3] = ChunkDraw(<<Red>>)


\* a maximum for the depth of the recursion of execute, the call on the
\* top-level list counted as depth 1: the deepest Blend nesting of the inputs
MaxRecursionDepth == MaxBlendDepth

(***************************************************************************)
(* C29: execute guards against deep nesting of Blend commands: the depth   *)
(* of its recursion (the number of execute calls that have not returned)   *)
(* never exceeds a fixed maximum, and the frame of a command tree nested   *)
(* deeper than the maximum fails instead of being recorded to the end.     *)
(* execute has no depth parameter and compares no depth with anything: a   *)
(* tree of Blend nesting n takes the recursion to depth n + 1 and is       *)
(* recorded and submitted, whatever maximum is fixed.                      *)
(***************************************************************************)
C29_RecursionDepthBounded ==
    /\ Len(stack) <= MaxRecursionDepth
    /\ phase \in {"submit", "done"} => BlendNesting(commands) < MaxRecursionDepth


T29_W == phase = "done" /\ BlendNesting(commands) = MaxBlendDepth


\* the commands of a list that are not Blend commands
OwnCommands(list) == SelectSeq(list, LAMBDA c : ~IsBlend(c))

\* the masks of a list, and of every list nested in it, are well-formed,
\* each list taken by itself
RECURSIVE BalancedMasks(_)
BalancedMasks(list) ==
    /\ NestedMasks(Trace(OwnCommands(list)), OwnCommands(list))
    /\ \A i \in 1..Len(list) :
          IsBlend(list[i]) => BalancedMasks(list[i].commands)

\* the place in a list of its n-th Blend command
NthBlend(list, n) ==
    CHOOSE k \in 1..Len(list) :
        /\ IsBlend(list[k])
        /\ Cardinality({j \in 1..k : IsBlend(list[j])}) = n

\* the calls an ordinary draw records when it is taken up with the counter
\* and the mask state of f
OrdinaryDraw(f) ==
    LoopBody(CommandRendererNew(<<>>, f.num_masks, f.mask_state), FullRed).render_pass

\* the composite pass a Blend chunk records: between begin and end the
\* stencil reference an ordinary draw at that place has set, then one draw
\* with the pipeline variant such a draw has
C30_CompositeStep ==
    (/\ phase = "record" /\ phase' = "record"
     /\ Top.pc = "blend"
     /\ Len(stack') = Len(stack)
     /\ stack'[Len(stack')].pc = "loop")
        => LET f == Top
               encoder == stack'[Len(stack')].draw_encoder
               pass == SubSeq(encoder, Len(f.draw_encoder) + 1, Len(encoder))
               ordinary == OrdinaryDraw(f)
               n == Len(ordinary)
           IN  /\ Len(pass) = n + 2
               /\ pass[1].op = "begin_render_pass"
               /\ pass[n + 2].op = "end_render_pass"
               /\ SubSeq(pass, 2, n) = SubSeq(ordinary, 1, n - 1)
               /\ pass[n + 1].op = "draw_indexed"
               /\ pass[n + 1].src.kind = "texture"
               /\ pass[n + 1].pipeline.mask_state = ordinary[n].pipeline.mask_state
               /\ pass[n + 1].pipeline.mask_state = f.mask_state
               /\ f.mask_state = "NoMask" => n = 1
               /\ f.mask_state # "NoMask" =>
                     /\ n = 2
                     /\ pass[2] = set_stencil_reference(
                                      ExpectedReference(f.mask_state, f.num_masks))

\* the composite draw of a Blend command of the top-level list, run by the
\* queue while a mask of that list is active, changes a colour only at the
\* pixels the mask geometry of all open levels covers, and no stencil
C30_CompositeClipped ==
    (/\ GpuAt("draw_indexed")
     /\ gpu.buffer = Len(output)
     /\ GpuOp.src.kind = "texture"
     /\ GpuOp.pipeline.mask_state = "DrawMaskedContent"
     /\ gpu'.ip = gpu.ip + 1
     /\ BalancedMasks(commands))
        => LET n == Cardinality(CompositesIn(SubSeq(output[gpu.buffer], 1, gpu.ip)))
               at == Trace(commands)[NthBlend(commands, n)]
           IN  /\ at.state = "DrawMaskedContent"
               /\ at.levels # <<>>
               /\ stencil' = stencil
               /\ \A p \in Pixels :
                     stencil[p] = Len(at.levels) <=> p \in Clip(at.levels)
               /\ \A t \in DOMAIN textures : \A p \in Pixels :
                     textures'[t][p] # textures[t][p] => p \in Clip(at.levels)

ChildBuffer == output[Len(output)]

(***************************************************************************)
(* C31: every child target taken from the pool for a Blend chunk has its   *)
(* colour cleared, by a render pass with a clear load operation, before    *)
(* the composite pass samples it, whatever the nested list is, the empty   *)
(* list too: when the recursive execute has returned, the command buffer   *)
(* it pushed begins with a pass on the child's frame buffer that clears;   *)
(* and the composite draw of a Blend command with an empty nested list     *)
(* samples a texture that holds nothing, so content an earlier use left in *)
(* a pooled buffer is never composited.                                    *)
(***************************************************************************)
C31_ChildClearedBeforeComposite ==
    /\ (phase = "record" /\ Top.pc = "blend") =>
          /\ PassesOf(ChildBuffer) # <<>>
          /\ PassesOf(ChildBuffer)[1].color.view = Top.child.frame_buffer
          /\ PassesOf(ChildBuffer)[1].color.load = "Clear"
    /\ (/\ GpuAt("draw_indexed")
        /\ gpu.buffer = Len(output)
        /\ GpuOp.src.kind = "texture")
          => LET n == Cardinality(CompositesIn(SubSeq(output[gpu.buffer], 1, gpu.ip)))
             IN  commands[NthBlend(commands, n)].commands = <<>>
                     => textures[GpuOp.src.view] = ClearTexture


\* the passes of an encoder that clear depth
DepthClears(encoder) ==
    {k \in 1..Len(PassesOf(encoder)) :
        PassesOf(encoder)[k].depth_stencil.depth_load = "Clear"}

\* what the colour view of the root target holds before the frame
InitialColor == [p \in Pixels |-> "blue"]

(***************************************************************************)
(* C32: when execute is called with clear_depth = true on a list that is   *)
(* not empty, the depth buffer is cleared exactly once, by the first       *)
(* render pass opened on the target, whether the first chunk is a Draw     *)
(* chunk or a Blend chunk (so once the first chunk is done the encoder     *)
(* holds one pass that clears depth, its first); and the snapshot taken    *)
(* for a first-chunk Blend holds what the target held before, whatever the *)
(* colour clear of that chunk's composite pass does to the target.         *)
(***************************************************************************)
C32_DepthClearedOnce ==
    /\ phase = "record" =>
          \A i \in 1..Len(stack) :
              (stack[i].clear_depth /\ ~stack[i].first)
                  => DepthClears(stack[i].draw_encoder) = {1}
    /\ (/\ phase = "done"
        /\ commands # <<>>
        /\ IsBlend(commands[1])
        /\ Cardinality(TopLevelBlends(commands)) = 1)
          => textures[RootTarget.blend_buffer] = InitialColor


\* the Blend commands of a command tree, those of the nested lists counted
RECURSIVE TotalBlends(_)
TotalBlends(list) ==
    IF list = <<>> THEN 0
    ELSE (IF IsBlend(Head(list)) THEN 1 + TotalBlends(Head(list).commands) ELSE 0)
         + TotalBlends(Tail(list))

\* the lists of a command tree in post-order: the nested lists of the Blend
\* commands of a list, in list order, each with its own before it, then the
\* list itself
RECURSIVE PostOrder(_)
RECURSIVE PostOrderOfBlends(_)
PostOrderOfBlends(blends) ==
    IF blends = <<>> THEN <<>>
    ELSE PostOrder(Head(blends).commands) \o PostOrderOfBlends(Tail(blends))
PostOrder(list) == Append(PostOrderOfBlends(SelectSeq(list, IsBlend)), list)

\* the places in output of the buffers of the nested lists of `blends`, when
\* `base` buffers come before the first of their subtrees
RECURSIVE PlacesFrom(_, _)
PlacesFrom(blends, base) ==
    IF blends = <<>> THEN <<>>
    ELSE LET place == (base + TotalBlends(Head(blends).commands)) + 1
         IN  <<place>> \o PlacesFrom(Tail(blends), place)

\* the places in output the composite draws of a command buffer sample from
SampledPlaces(buffer) ==
    LET draws == SelectSeq(buffer, LAMBDA call :
                     call.op = "draw_indexed" /\ call.src.kind = "texture")
    IN  [n \in 1..Len(draws) |-> draws[n].src.produced_by]

\* the command buffer at place k of output is the one of `list`: a pass per
\* chunk, a snapshot per Blend command, and the composite draws sample the
\* buffers of the nested lists, which come before it, siblings in list order
BufferOf(k, list) ==
    /\ Len(PassesOf(output[k])) = Len(chunk_blends(list))
    /\ Cardinality(CopiesIn(output[k])) = NumBlends(list)
    /\ SampledPlaces(output[k])
           = PlacesFrom(SelectSeq(list, IsBlend), (k - TotalBlends(list)) - 1)
    /\ \A n \in 1..Len(SampledPlaces(output[k])) : SampledPlaces(output[k])[n] < k

\* the commands of its list whose execution an execute call is done with:
\* those taken up, but for the Blend command whose nested list still runs
DoneWith(i) ==
    IF i < Len(stack)
    THEN SubSeq(stack[i].commands, 1, ProcessedCount(stack[i]) - 1)
    ELSE Processed(stack[i])

RECURSIVE BuffersDue(_)
BuffersDue(i) == IF i = 0 THEN 0 ELSE TotalBlends(DoneWith(i)) + BuffersDue(i - 1)

\* while the frame is recorded output holds one buffer for each Blend
\* command, nested ones counted, whose nested list has been executed; when
\* it is recorded output is the post-order of the command tree
C33_OutputIsPostOrder ==
    /\ phase = "record" => Len(output) = BuffersDue(Len(stack))
    /\ phase \in {"submit", "done"} =>
          LET lists == PostOrder(commands)
          IN  /\ Len(output) = TotalBlends(commands) + 1
              /\ Len(lists) = Len(output)
              /\ \A k \in 1..Len(output) : BufferOf(k, lists[k])

\* output changes only by the return of an execute call, which appends one
\* command buffer, its encoder, and every return appends one
C33_OnePushPerCall ==
    (phase = "record" /\ phase' # "panic") =>
        /\ Len(stack') < Len(stack) =>
              /\ Len(stack') = Len(stack) - 1
              /\ output' = Append(output, Top.draw_encoder)
        /\ Len(stack') >= Len(stack) => output' = output

(***************************************************************************)
(* C33: each call of CommandRenderer::execute, each recursive call and a   *)
(* call with an empty list too, appends exactly one command buffer to the  *)
(* output, when it returns, so after the buffers of all Blend commands     *)
(* nested in its list: for a command tree with B Blend commands in all the *)
(* output gains B + 1 buffers, in post-order (the buffer of every child    *)
(* before that of its parent, those of siblings in list order).  A call    *)
(* that panics returns nothing and is left out.                            *)
(***************************************************************************)
C33_OneBufferPerCall ==
    /\ []C33_OutputIsPostOrder
    /\ [][C33_OnePushPerCall]_vars

\* a tree of three Blend commands, two of them siblings nested in the
\* third, is recorded: four buffers
C33_Witness ==
    /\ phase = "submit"
    /\ TotalBlends(commands) = 3
    /\ BlendNesting(commands) = 2
    /\ NumBlends(commands) = 1
    /\ Len(output) = 4
    /\ SampledPlaces(output[3]) = <<1, 2>>
    /\ SampledPlaces(output[4]) = <<3>>

=============================================================================
